---- MODULE Spec2Model ----
(***************************************************************************)
(* ts-micro-mediator: the Registry, the Mediator (dispatcher), the         *)
(* MediatorFactory singleton and the convenience API of helpers.ts and     *)
(* middleware.ts, as a state machine.                                      *)
(*                                                                         *)
(* Objects live in two heaps: `registries` (Registry objects) and          *)
(* `mediators` (Mediator objects, each holding the index of the Registry   *)
(* it was constructed with).  A reference is an index into its heap and    *)
(* Null is the null reference.  Every promise returned by send, publish,   *)
(* sendBatch or publishBatch is one record of `ops`.                       *)
(***************************************************************************)
EXTENDS Integers, Sequences, FiniteSets, TLC

VARIABLES
  registries,           \* heap of Registry objects (their four Maps)
  mediators,            \* heap of Mediator objects: mediators[m] = its _registry
  _instance,            \* mediator.ts: let _instance: Mediator | null
  _registry,            \* mediator.ts: let _registry: Registry | null
  helpers_mediator,     \* helpers.ts: let _mediator: IMediator | null
  middleware_mediator,  \* middleware.ts: let _mediator: IMediator | null
  ops,                  \* the promises returned by the dispatch calls made so far
  buildPromise          \* tests/helpers: let buildPromise = null

vars == <<registries, mediators, _instance, _registry,
          helpers_mediator, middleware_mediator, ops, buildPromise>>

(***************************************************************************)
(* Bounds of the model.                                                    *)
(***************************************************************************)
MaxRegistries == 2      \* Registry objects constructed in one behaviour
SendCalls == 1          \* send calls made in one behaviour of SpecSend
MaxBatch == 3           \* longest list handed to sendBatch
MaxSubscribers == 2     \* longest notification-handler list of one key
LifecyclePairs == 1     \* Registry+Mediator pairs constructed in one behaviour of SpecLifecycle
OverwriteSends == 2     \* send calls made in one behaviour of SpecOverwrite
MaxMediators == 3       \* Mediator objects constructed in one behaviour of SpecFactory
MaxPublishBatch == 2    \* longest list handed to publishBatch
ApiCalls == 1           \* dispatch calls made in one behaviour of SpecApi
CqrsCalls == 2          \* dispatch calls made in one behaviour of SpecCqrs
MaxErrors == 1          \* longest errors array handed to isResult
MaxEntries == 3         \* entries in one argument of registerBatch
InterleaveCalls == 2    \* calls of send and publish in flight together
InFlightCalls == 2      \* dispatch calls made in one behaviour of SpecInFlightSend / SpecInFlightPublish
AttachCalls == 2        \* attachMediator / middleware calls made in one behaviour of SpecAttach
BuildCallers == 3       \* ensureBuild calls made in one behaviour of SpecBuild

Null == 0               \* the null reference

(***************************************************************************)
(* JavaScript values a handler can resolve to, and ts-micro-result.        *)
(* `ok` is the value of the property `ok` ("undefined" when the object has *)
(* none), `guards` says whether the object carries the predicate functions *)
(* isOk / isError / hasWarning.                                            *)
(***************************************************************************)
Undefined ==
  [kind |-> "undefined", ok |-> "undefined", guards |-> FALSE,
   data |-> <<>>, errors |-> <<>>, extra |-> <<>>]

NullValue ==
  [kind |-> "null", ok |-> "undefined", guards |-> FALSE,
   data |-> <<>>, errors |-> <<>>, extra |-> <<>>]

\* a slot of Promise.all's result array that no promise has filled yet
Hole ==
  [kind |-> "hole", ok |-> "undefined", guards |-> FALSE,
   data |-> <<>>, errors |-> <<>>, extra |-> <<>>]

\* an object literal such as { foo: 'bar' }, possibly with an `ok` property
PlainObject(okProperty, fields) ==
  [kind |-> "object", ok |-> okProperty, guards |-> FALSE,
   data |-> <<>>, errors |-> <<>>, extra |-> fields]

\* ts-micro-result ok(data): a success Result
ok(data) ==
  [kind |-> "object", ok |-> "true", guards |-> TRUE,
   data |-> data, errors |-> <<>>, extra |-> <<>>]

\* ts-micro-result err(detail): a failure Result carrying one ErrorDetail
err(detail) ==
  [kind |-> "object", ok |-> "false", guards |-> TRUE,
   data |-> <<>>, errors |-> <<detail>>, extra |-> <<>>]

\* MEDIATOR_ERRORS: the three ErrorDetail builders
HANDLER_NOT_FOUND(requestType) ==
  [code |-> "HANDLER_NOT_FOUND",
   message |-> <<"Handler not found for request type: ", requestType>>]

HANDLER_ERROR(requestType) ==
  [code |-> "HANDLER_ERROR",
   message |-> <<"Handler execution failed for request type: ", requestType>>]

INVALID_HANDLER_RESULT(requestType) ==
  [code |-> "INVALID_HANDLER_RESULT",
   message |-> <<"Handler returned invalid result for request type: ", requestType>>]

(***************************************************************************)
(* Requests and notifications handed to the dispatcher.  An instance is an *)
(* object whose constructor has the given name; null has no constructor.   *)
(***************************************************************************)
RequestTypes == {"A", "B"}
NotificationTypes == {"N", "M"}

Instance(name) == [kind |-> "instance", name |-> name]
NullRequest == [kind |-> "null", name |-> "null"]

RequestInstances == {Instance(k) : k \in RequestTypes}
NotificationInstances == {Instance(k) : k \in NotificationTypes}

(***************************************************************************)
(* Handlers supplied by the application.  A request handler is named by    *)
(* what it does when invoked.                                              *)
(***************************************************************************)
NoHandler == "undefined"   \* Map.get of a missing key

RequestHandlerNames ==
  {"hOk", "hOk2", "hFail", "hThrow", "hReject",
   "hUndefined", "hNull", "hPlain", "hOkField"}

\* TRUE when invoking the handler throws before it returns a promise
ThrowsWhenInvoked(handler) == handler \in {"hThrow", "nThrow"}

\* the value a failing handler throws or rejects with: an object of its own
Cause(handler) == PlainObject("undefined", <<"cause", handler>>)

\* how the promise returned by a request handler settles
HandlerOutcome(handler, request) ==
  CASE handler = "hOk"        -> [rejected |-> FALSE, value |-> ok(<<"hOk", request.name>>)]
    [] handler = "hOk2"       -> [rejected |-> FALSE, value |-> ok(<<"hOk2", request.name>>)]
    [] handler = "hFail"      -> [rejected |-> FALSE,
                                  value |-> err([code |-> "VALIDATION",
                                                 message |-> <<"hFail", request.name>>])]
    [] handler = "hReject"    -> [rejected |-> TRUE, value |-> Cause(handler)]
    [] handler = "hUndefined" -> [rejected |-> FALSE, value |-> Undefined]
    [] handler = "hNull"      -> [rejected |-> FALSE, value |-> NullValue]
    [] handler = "hPlain"     -> [rejected |-> FALSE,
                                  value |-> PlainObject("undefined", <<"foo", "bar">>)]
    [] handler = "hOkField"   -> [rejected |-> FALSE,
                                  value |-> PlainObject("true", <<"foo", "bar">>)]
    [] OTHER                  -> [rejected |-> TRUE, value |-> Cause(handler)]

NotificationHandlerNames == {"nResolve", "nReject", "nThrow"}

\* how the promise returned by a notification handler settles
NotificationOutcome(handler) ==
  IF handler \in {"nResolve", "nRegister", "nReset"} THEN "resolved" ELSE "rejected"

\* notification handlers that call the Registry before they return their
\* promise: nRegister registers nResolve under the key of the notification it
\* is given, nReset resets the Registry
ReentrantHandlerNames == {"nRegister", "nReset"}

(***************************************************************************)
(* Registry (registry.ts)                                                  *)
(***************************************************************************)
NoClass == [name |-> "", variant |-> "undefined"]   \* Map.get of a missing key

\* new Registry(): four empty Maps
EmptyRegistry ==
  [requestHandlers      |-> [k \in RequestTypes |-> NoHandler],
   notificationHandlers |-> [k \in NotificationTypes |-> <<>>],
   requestClasses       |-> [k \in RequestTypes |-> NoClass],
   notificationClasses  |-> [k \in NotificationTypes |-> NoClass]]

\* Registry.registerHandler that keeps the handler a key already has
Registry_registerHandlerKeepFirst(registry, requestType, handler) ==
  IF registry.requestHandlers[requestType] = NoHandler
  THEN [registry EXCEPT !.requestHandlers[requestType] = handler]
  ELSE registry

Registry_registerHandler(registry, requestType, handler) ==
  [registry EXCEPT !.requestHandlers[requestType] = handler]

\* Registry.registerNotificationHandler that keeps one entry per handler
Registry_registerNotificationHandlerOnce(registry, notificationType, handler) ==
  IF \E i \in 1..Len(registry.notificationHandlers[notificationType]) :
       registry.notificationHandlers[notificationType][i] = handler
  THEN registry
  ELSE [registry EXCEPT !.notificationHandlers[notificationType] = Append(@, handler)]

Registry_registerNotificationHandler(registry, notificationType, handler) ==
  [registry EXCEPT !.notificationHandlers[notificationType] = Append(@, handler)]

\* a registerRequestClass that takes the handler of the class name away
Registry_registerRequestClassUnbinding(registry, requestClass) ==
  [registry EXCEPT !.requestClasses[requestClass.name] = requestClass,
                   !.requestHandlers[requestClass.name] = NoHandler]

Registry_registerRequestClass(registry, requestClass) ==
  [registry EXCEPT !.requestClasses[requestClass.name] = requestClass]

Registry_registerNotificationClass(registry, notificationClass) ==
  [registry EXCEPT !.notificationClasses[notificationClass.name] = notificationClass]

\* new Class(data): an instance of the class, built from the one argument
New(class, data) ==
  [kind |-> "instance", name |-> class.name, class |-> class, args |-> <<data>>]

\* Registry.createRequest that looks the class up only for keys with a handler
Registry_createRequestNeedsHandler(registry, requestType, data) ==
  IF /\ requestType \in DOMAIN registry.requestClasses
     /\ registry.requestClasses[requestType] # NoClass
     /\ registry.requestHandlers[requestType] # NoHandler
  THEN New(registry.requestClasses[requestType], data)
  ELSE NullRequest

Registry_createRequest(registry, requestType, data) ==
  LET RequestClass == IF requestType \in DOMAIN registry.requestClasses
                      THEN registry.requestClasses[requestType]
                      ELSE NoClass
  IN  IF RequestClass # NoClass THEN New(RequestClass, data) ELSE NullRequest

Registry_createNotification(registry, notificationType, data) ==
  LET NotificationClass == IF notificationType \in DOMAIN registry.notificationClasses
                           THEN registry.notificationClasses[notificationType]
                           ELSE NoClass
  IN  IF NotificationClass # NoClass THEN New(NotificationClass, data) ELSE NullRequest

Registry_getHandler(registry, requestType) ==
  IF requestType \in DOMAIN registry.requestHandlers
  THEN registry.requestHandlers[requestType]
  ELSE NoHandler

Registry_getNotificationHandlers(registry, notificationType) ==
  IF notificationType \in DOMAIN registry.notificationHandlers
  THEN registry.notificationHandlers[notificationType]
  ELSE <<>>

Registry_resetPartial(registry) ==
  [EmptyRegistry EXCEPT !.notificationClasses = registry.notificationClasses]

Registry_reset(registry) == EmptyRegistry

\* Registry.getStats that counts the notification handlers, not their keys
Registry_getStatsPerHandler(registry) ==
  [requestHandlers      |-> Cardinality({k \in RequestTypes :
                                registry.requestHandlers[k] # NoHandler}),
   notificationHandlers |-> Cardinality(UNION {
                                {<<k, i>> : i \in 1..Len(registry.notificationHandlers[k])} :
                                k \in NotificationTypes}),
   requestClasses       |-> Cardinality({k \in RequestTypes :
                                registry.requestClasses[k] # NoClass}),
   notificationClasses  |-> Cardinality({k \in NotificationTypes :
                                registry.notificationClasses[k] # NoClass})]

Registry_getStats(registry) ==
  [requestHandlers      |-> Cardinality({k \in RequestTypes :
                                registry.requestHandlers[k] # NoHandler}),
   notificationHandlers |-> Cardinality({k \in NotificationTypes :
                                registry.notificationHandlers[k] # <<>>}),
   requestClasses       |-> Cardinality({k \in RequestTypes :
                                registry.requestClasses[k] # NoClass}),
   notificationClasses  |-> Cardinality({k \in NotificationTypes :
                                registry.notificationClasses[k] # NoClass})]

\* class constructors the application can register
Class(name, variant) == [name |-> name, variant |-> variant]
RequestClasses == {Class(k, "first") : k \in RequestTypes}
NotificationClasses == {Class(k, "first") : k \in NotificationTypes}

(***************************************************************************)
(* Mediator (mediator.ts).  A dispatch of one request or notification is a *)
(* record `sub`: the input, the handlers looked up, one `call` per handler *)
(* invoked (with the state of the promise it returned), and the state and  *)
(* value of the promise the dispatch returns.                              *)
(***************************************************************************)
Call(handler, state) == [handler |-> handler, state |-> state]

Sub(input, handlers, calls, state, value) ==
  [input |-> input, handlers |-> handlers, calls |-> calls,
   state |-> state, value |-> value]

\* a type-key that tells the classes of one name apart: only the class first
\* declared under a name keeps the name as its key
getRequestTypeOfClass(request) ==
  IF request.kind = "instance"
  THEN [threw |-> FALSE,
        name |-> IF "class" \in DOMAIN request /\ request.class.variant # "first"
                 THEN "" ELSE request.name]
  ELSE [threw |-> TRUE, name |-> ""]

\* request.constructor.name: a TypeError for a value without a constructor
getRequestType(request) ==
  IF request.kind = "instance"
  THEN [threw |-> FALSE, name |-> request.name]
  ELSE [threw |-> TRUE, name |-> ""]

\* notification.constructor.name
getNotificationType(notification) ==
  IF notification.kind = "instance"
  THEN [threw |-> FALSE, name |-> notification.name]
  ELSE [threw |-> TRUE, name |-> ""]

\* result?.ok
OptionalOk(result) ==
  IF result.kind \in {"undefined", "null"} THEN "undefined" ELSE result.ok

\* send without the `if (!handler)` return: undefined is called inside the try
sendStartNoGuard(registry, request) ==
  LET t == getRequestType(request)
      handler == Registry_getHandler(registry, t.name)
  IN  IF t.threw
      THEN Sub(request, <<>>, <<>>, "rejected", Hole)
      ELSE IF handler = NoHandler \/ ThrowsWhenInvoked(handler)
      THEN Sub(request, <<handler>>, <<Call(handler, "threw")>>,
               "fulfilled", err(HANDLER_ERROR(t.name)))
      ELSE Sub(request, <<handler>>, <<Call(handler, "pending")>>, "pending", Hole)

\* send with the handler invoked before the try block
sendStartNoTry(registry, request) ==
  LET t == getRequestType(request)
      handler == Registry_getHandler(registry, t.name)
  IN  IF t.threw
      THEN Sub(request, <<>>, <<>>, "rejected", Hole)
      ELSE IF handler = NoHandler
      THEN Sub(request, <<>>, <<>>, "fulfilled", err(HANDLER_NOT_FOUND(t.name)))
      ELSE IF ThrowsWhenInvoked(handler)
      THEN Sub(request, <<handler>>, <<Call(handler, "threw")>>, "rejected", Hole)
      ELSE Sub(request, <<handler>>, <<Call(handler, "pending")>>, "pending", Hole)

\* Mediator.send up to its await: type-key, lookup, invocation of the handler
sendStart(registry, request) ==
  LET t == getRequestType(request)
      handler == Registry_getHandler(registry, t.name)
  IN  IF t.threw
      THEN Sub(request, <<>>, <<>>, "rejected", Hole)
      ELSE IF handler = NoHandler
      THEN Sub(request, <<>>, <<>>, "fulfilled", err(HANDLER_NOT_FOUND(t.name)))
      ELSE IF ThrowsWhenInvoked(handler)
      THEN Sub(request, <<handler>>, <<Call(handler, "threw")>>,
               "fulfilled", err(HANDLER_ERROR(t.name)))
      ELSE Sub(request, <<handler>>, <<Call(handler, "pending")>>, "pending", Hole)

\* send with `result?.ok ? result : err(...)`: a truthiness test
sendResumeTruthy(sub, outcome) ==
  LET requestType == sub.input.name
      settled == [sub EXCEPT !.calls[1].state =
                    IF outcome.rejected THEN "rejected" ELSE "resolved"]
  IN  IF outcome.rejected
      THEN [settled EXCEPT !.state = "fulfilled",
                           !.value = err(HANDLER_ERROR(requestType))]
      ELSE IF OptionalOk(outcome.value) = "true"
      THEN [settled EXCEPT !.state = "fulfilled", !.value = outcome.value]
      ELSE [settled EXCEPT !.state = "fulfilled",
                           !.value = err(INVALID_HANDLER_RESULT(requestType))]

\* send with `catch (e)` putting the caught value into the error descriptor
sendResumeLeaky(sub, outcome) ==
  LET requestType == sub.input.name
      settled == [sub EXCEPT !.calls[1].state =
                    IF outcome.rejected THEN "rejected" ELSE "resolved"]
  IN  IF outcome.rejected
      THEN [settled EXCEPT !.state = "fulfilled",
                           !.value = err([code |-> "HANDLER_ERROR",
                                          message |-> HANDLER_ERROR(requestType).message,
                                          cause |-> outcome.value])]
      ELSE IF OptionalOk(outcome.value) # "undefined"
      THEN [settled EXCEPT !.state = "fulfilled", !.value = outcome.value]
      ELSE [settled EXCEPT !.state = "fulfilled",
                           !.value = err(INVALID_HANDLER_RESULT(requestType))]

\* Mediator.send after its await: the handler's promise has settled
sendResume(sub, outcome) ==
  LET requestType == sub.input.name
      settled == [sub EXCEPT !.calls[1].state =
                    IF outcome.rejected THEN "rejected" ELSE "resolved"]
  IN  IF outcome.rejected
      THEN [settled EXCEPT !.state = "fulfilled",
                           !.value = err(HANDLER_ERROR(requestType))]
      ELSE IF OptionalOk(outcome.value) # "undefined"
      THEN [settled EXCEPT !.state = "fulfilled", !.value = outcome.value]
      ELSE [settled EXCEPT !.state = "fulfilled",
                           !.value = err(INVALID_HANDLER_RESULT(requestType))]

\* index of the first handler of the list that throws when invoked, or 0
FirstThrowing(handlers) ==
  LET throwing == {i \in 1..Len(handlers) : ThrowsWhenInvoked(handlers[i])}
  IN  IF throwing = {} THEN 0
      ELSE CHOOSE i \in throwing : \A j \in throwing : i <= j

\* Mediator.publish up to its await: lookup, then handlers.map(...) invokes the
\* handlers in list order; a throw inside map ends the map and rejects publish
publishStart(registry, notification) ==
  LET t == getNotificationType(notification)
      handlers == Registry_getNotificationHandlers(registry, t.name)
      stop == FirstThrowing(handlers)
  IN  IF t.threw
      THEN Sub(notification, <<>>, <<>>, "rejected", Hole)
      ELSE IF Len(handlers) = 0
      THEN Sub(notification, handlers, <<>>, "fulfilled", Undefined)
      ELSE IF stop = 0
      THEN Sub(notification, handlers,
               [i \in 1..Len(handlers) |-> Call(handlers[i], "pending")],
               "pending", Hole)
      ELSE Sub(notification, handlers,
               [i \in 1..stop |-> Call(handlers[i],
                                       IF i = stop THEN "threw" ELSE "pending")],
               "rejected", Hole)

\* handlers.map(handler => handler(notification).catch(() => {})) with handlers
\* that call the Registry while they are invoked.  `array` is the array object
\* publish got from the Registry and `attached` tells whether the Registry
\* still holds that object under the key: registerNotificationHandler pushes
\* onto the array the Registry holds, reset clears the Map and leaves the
\* array object alone.  map visits the indices below the length the array
\* had when map was called.
RECURSIVE handlersMap(_, _, _, _, _, _, _)
handlersMap(registry, key, array, attached, length, i, calls) ==
  IF i > length
  THEN [registry |-> registry, calls |-> calls, threw |-> FALSE]
  ELSE LET handler == array[i]
       IN  IF ThrowsWhenInvoked(handler)
           THEN [registry |-> registry,
                 calls |-> Append(calls, Call(handler, "threw")),
                 threw |-> TRUE]
           ELSE handlersMap(
                  CASE handler = "nRegister" ->
                         Registry_registerNotificationHandler(registry, key, "nResolve")
                    [] handler = "nReset" -> Registry_reset(registry)
                    [] OTHER -> registry,
                  key,
                  IF handler = "nRegister" /\ attached
                  THEN Append(array, "nResolve") ELSE array,
                  attached /\ handler # "nReset",
                  length, i + 1,
                  Append(calls, Call(handler, "pending")))

\* Mediator.publish up to its await, with the Registry as the handlers
\* invoked on the way have left it
publishStartWithEffects(registry, notification) ==
  LET t == getNotificationType(notification)
      handlers == Registry_getNotificationHandlers(registry, t.name)
      mapped == handlersMap(registry, t.name, handlers, TRUE, Len(handlers), 1, <<>>)
  IN  IF t.threw
      THEN [registry |-> registry,
            sub |-> Sub(notification, <<>>, <<>>, "rejected", Hole)]
      ELSE IF Len(handlers) = 0
      THEN [registry |-> registry,
            sub |-> Sub(notification, handlers, <<>>, "fulfilled", Undefined)]
      ELSE [registry |-> mapped.registry,
            sub |-> Sub(notification, handlers, mapped.calls,
                        IF mapped.threw THEN "rejected" ELSE "pending", Hole)]

\* a publish that is fulfilled as soon as one handler promise has settled
publishResumeFirst(sub, c) ==
  LET calls == [sub.calls EXCEPT ![c].state = NotificationOutcome(sub.calls[c].handler)]
      settled == [sub EXCEPT !.calls = calls]
  IN  IF sub.state = "pending"
      THEN [settled EXCEPT !.state = "fulfilled", !.value = Undefined]
      ELSE settled

\* the promise of call c settles; Promise.all over the caught promises
\* fulfils publish once none of them is pending
publishResume(sub, c) ==
  LET calls == [sub.calls EXCEPT ![c].state = NotificationOutcome(sub.calls[c].handler)]
      settled == [sub EXCEPT !.calls = calls]
  IN  IF sub.state = "pending" /\ \A i \in 1..Len(calls) : calls[i].state # "pending"
      THEN [settled EXCEPT !.state = "fulfilled", !.value = Undefined]
      ELSE settled

(***************************************************************************)
(* Promise.all as sendBatch and publishBatch use it, and the record `op`   *)
(* of one call of send, publish, sendBatch or publishBatch.                *)
(***************************************************************************)
\* a result queue: the value goes to the first slot still empty
PromiseAllStoreQueue(values, index, value) ==
  LET holes == {i \in 1..Len(values) : values[i] = Hole}
  IN  IF holes = {} THEN values
      ELSE [values EXCEPT ![CHOOSE i \in holes : \A j \in holes : i <= j] = value]

\* Promise.all stores the value of the index-th promise at position index
PromiseAllStore(values, index, value) == [values EXCEPT ![index] = value]

\* the state of Promise.all(promises)
PromiseAllState(states) ==
  IF \E i \in 1..Len(states) : states[i] = "rejected" THEN "rejected"
  ELSE IF \A i \in 1..Len(states) : states[i] = "fulfilled" THEN "fulfilled"
  ELSE "pending"

\* a publishBatch that hands the publish promises to Promise.all as they are
Uncaught(sub) == sub

\* publishBatch wraps each publish in .catch(() => {})
Caught(sub) ==
  IF sub.state = "rejected"
  THEN [sub EXCEPT !.state = "fulfilled", !.value = Undefined]
  ELSE sub

\* the promises Promise.all waits for, by kind of call
Awaited(kind, subs) ==
  IF kind = "publishBatch" THEN [i \in 1..Len(subs) |-> Caught(subs[i])] ELSE subs

\* the values of the promises already fulfilled when Promise.all subscribes,
\* stored in index order
RECURSIVE StoreFulfilled(_, _, _)
StoreFulfilled(values, subs, i) ==
  IF i > Len(subs) THEN values
  ELSE StoreFulfilled(
         IF subs[i].state = "fulfilled"
         THEN PromiseAllStore(values, i, subs[i].value) ELSE values,
         subs, i + 1)

\* the promise returned by a call, right after its synchronous part
NewOp(kind, mediator, input, subs) ==
  [kind |-> kind, mediator |-> mediator, input |-> input, subs |-> subs,
   values |-> StoreFulfilled([i \in 1..Len(subs) |-> Hole], Awaited(kind, subs), 1),
   state |-> PromiseAllState([i \in 1..Len(subs) |-> Awaited(kind, subs)[i].state])]

\* the promise returned by a call after its s-th dispatch changed to sub
UpdateOp(op, s, sub) ==
  LET subs == [op.subs EXCEPT ![s] = sub]
      now == Awaited(op.kind, subs)[s]
      before == Awaited(op.kind, op.subs)[s]
  IN  [op EXCEPT
         !.subs = subs,
         !.values = IF now.state = "fulfilled" /\ before.state # "fulfilled"
                    THEN PromiseAllStore(@, s, now.value) ELSE @,
         !.state = PromiseAllState(
                     [i \in 1..Len(subs) |-> Awaited(op.kind, subs)[i].state])]

(***************************************************************************)
(* The module-level state of mediator.ts, helpers.ts and middleware.ts     *)
(* together with the two heaps, as one record, so that a function that     *)
(* creates the singleton on the way is an operator from world to world.    *)
(***************************************************************************)
World ==
  [registries |-> registries, mediators |-> mediators,
   _instance |-> _instance, _registry |-> _registry,
   helpers_mediator |-> helpers_mediator,
   middleware_mediator |-> middleware_mediator]

SetWorld(w) ==
  /\ registries' = w.registries
  /\ mediators' = w.mediators
  /\ _instance' = w._instance
  /\ _registry' = w._registry
  /\ helpers_mediator' = w.helpers_mediator
  /\ middleware_mediator' = w.middleware_mediator
  /\ UNCHANGED buildPromise

\* the allocation bound of the model
WithinHeap(w) == Len(w.registries) <= MaxRegistries

\* the Registry a Mediator is bound to (Mediator._registry, get registry())
RegistryOf(w, mediator) == w.registries[w.mediators[mediator]]

\* a create() that binds the new singleton to the Registry of the singleton
\* discarded last, when there is one
MediatorFactory_createRecycling(w) ==
  IF w._instance = Null
  THEN IF Len(w.registries) > 0
       THEN [w EXCEPT !.mediators = Append(@, Len(w.registries)),
                      !._registry = Len(w.registries),
                      !._instance = Len(w.mediators) + 1]
       ELSE [w EXCEPT !.registries = Append(@, EmptyRegistry),
                      !.mediators = Append(@, Len(w.registries) + 1),
                      !._registry = Len(w.registries) + 1,
                      !._instance = Len(w.mediators) + 1]
  ELSE w

\* a create() that constructs a new pair on every call
MediatorFactory_createAlways(w) ==
  [w EXCEPT !.registries = Append(@, EmptyRegistry),
            !.mediators = Append(@, Len(w.registries) + 1),
            !._registry = Len(w.registries) + 1,
            !._instance = Len(w.mediators) + 1]

\* MediatorFactory.create(): the singleton, created when there is none
MediatorFactory_create(w) ==
  IF w._instance = Null
  THEN [w EXCEPT !.registries = Append(@, EmptyRegistry),
                 !.mediators = Append(@, Len(w.registries) + 1),
                 !._registry = Len(w.registries) + 1,
                 !._instance = Len(w.mediators) + 1]
  ELSE w

\* a reset() that empties the Registry and forgets the Mediator only
MediatorFactory_resetKeepsRegistry(w) ==
  [w EXCEPT !.registries = IF w._registry # Null
                           THEN [@ EXCEPT ![w._registry] = Registry_reset(@)]
                           ELSE @,
            !._instance = Null]

\* a reset() that discards the singleton without emptying its Registry
MediatorFactory_resetDiscardOnly(w) ==
  [w EXCEPT !._instance = Null, !._registry = Null]

\* MediatorFactory.reset()
MediatorFactory_reset(w) ==
  [w EXCEPT !.registries = IF w._registry # Null
                           THEN [@ EXCEPT ![w._registry] = Registry_reset(@)]
                           ELSE @,
            !._instance = Null,
            !._registry = Null]

\* a createWithRegistry that stores the pair it builds as the singleton
MediatorFactory_createWithRegistryStored(w, registry) ==
  [w EXCEPT !.mediators = Append(@, registry),
            !._instance = Len(w.mediators) + 1,
            !._registry = registry]

\* MediatorFactory.createWithRegistry(registry): new Mediator(registry)
MediatorFactory_createWithRegistry(w, registry) ==
  [w EXCEPT !.mediators = Append(@, registry)]

\* MediatorFactory.getRegistry()
MediatorFactory_getRegistry(w) == w._registry

\* helpers.ts ensureMediator(): the cached mediator, fetched on first use
ensureMediator(w) ==
  IF w.helpers_mediator = Null
  THEN [MediatorFactory_create(w) EXCEPT
          !.helpers_mediator = MediatorFactory_create(w)._instance]
  ELSE w

\* middleware.ts getMediator(): the cached mediator, fetched on first use
getMediator(w) ==
  IF w.middleware_mediator = Null
  THEN [MediatorFactory_create(w) EXCEPT
          !.middleware_mediator = MediatorFactory_create(w)._instance]
  ELSE w

\* w with the Registry of `mediator` replaced by `registry`
WithRegistry(w, mediator, registry) ==
  [w EXCEPT !.registries[w.mediators[mediator]] = registry]

(***************************************************************************)
(* Calls on a Registry object and on the factory                           *)
(***************************************************************************)
OnRegistry_registerHandler(r, requestType, handler) ==
  /\ registries' = [registries EXCEPT ![r] =
                      Registry_registerHandler(@, requestType, handler)]
  /\ UNCHANGED <<mediators, _instance, _registry,
                 helpers_mediator, middleware_mediator, ops, buildPromise>>

OnRegistry_registerNotificationHandler(r, notificationType, handler) ==
  /\ Len(registries[r].notificationHandlers[notificationType]) < MaxSubscribers
  /\ registries' = [registries EXCEPT ![r] =
                      Registry_registerNotificationHandler(@, notificationType, handler)]
  /\ UNCHANGED <<mediators, _instance, _registry,
                 helpers_mediator, middleware_mediator, ops, buildPromise>>

OnRegistry_registerRequestClass(r, requestClass) ==
  /\ registries' = [registries EXCEPT ![r] =
                      Registry_registerRequestClass(@, requestClass)]
  /\ UNCHANGED <<mediators, _instance, _registry,
                 helpers_mediator, middleware_mediator, ops, buildPromise>>

OnRegistry_registerNotificationClass(r, notificationClass) ==
  /\ registries' = [registries EXCEPT ![r] =
                      Registry_registerNotificationClass(@, notificationClass)]
  /\ UNCHANGED <<mediators, _instance, _registry,
                 helpers_mediator, middleware_mediator, ops, buildPromise>>

OnRegistry_reset(r) ==
  /\ registries' = [registries EXCEPT ![r] = Registry_reset(@)]
  /\ UNCHANGED <<mediators, _instance, _registry,
                 helpers_mediator, middleware_mediator, ops, buildPromise>>

OnFactory_create ==
  /\ WithinHeap(MediatorFactory_create(World))
  /\ SetWorld(MediatorFactory_create(World))
  /\ UNCHANGED ops

OnFactory_reset ==
  /\ SetWorld(MediatorFactory_reset(World))
  /\ UNCHANGED ops

\* new Registry()
OnNewRegistry ==
  /\ Len(registries) < MaxRegistries
  /\ registries' = Append(registries, EmptyRegistry)
  /\ UNCHANGED <<mediators, _instance, _registry,
                 helpers_mediator, middleware_mediator, ops, buildPromise>>

OnFactory_createWithRegistry(r) ==
  /\ SetWorld(MediatorFactory_createWithRegistry(World, r))
  /\ UNCHANGED ops

(***************************************************************************)
(* Calls on a Mediator object                                              *)
(***************************************************************************)
Mediator_send(w, mediator, request) ==
  NewOp("send", mediator, <<request>>,
        <<sendStart(RegistryOf(w, mediator), request)>>)

Mediator_publish(w, mediator, notification) ==
  NewOp("publish", mediator, <<notification>>,
        <<publishStart(RegistryOf(w, mediator), notification)>>)

\* a sendBatch that awaits each send before it starts the next one: only the
\* first request has been dispatched when the call returns its promise
Mediator_sendBatchSequential(w, mediator, requests) ==
  NewOp("sendBatch", mediator, requests,
        [i \in 1..Len(requests) |->
           IF i = 1 THEN sendStart(RegistryOf(w, mediator), requests[i])
           ELSE Sub(requests[i], <<>>, <<>>, "pending", Hole)])

\* requests.map(request => this.send(request)) handed to Promise.all
Mediator_sendBatch(w, mediator, requests) ==
  NewOp("sendBatch", mediator, requests,
        [i \in 1..Len(requests) |-> sendStart(RegistryOf(w, mediator), requests[i])])

\* notifications.map(n => this.publish(n).catch(() => {})) handed to Promise.all
Mediator_publishBatch(w, mediator, notifications) ==
  NewOp("publishBatch", mediator, notifications,
        [i \in 1..Len(notifications) |->
           publishStart(RegistryOf(w, mediator), notifications[i])])

\* a sendCommand that invokes the handler itself, outside send's try
Mediator_sendCommandDirect(w, mediator, command) ==
  NewOp("sendCommand", mediator, <<command>>,
        <<sendStartNoTry(RegistryOf(w, mediator), command)>>)

\* async sendCommand(command) { return this.send(command) }: the promise
\* returned takes the state and value of send's promise
Mediator_sendCommand(w, mediator, command) ==
  NewOp("sendCommand", mediator, <<command>>,
        <<sendStart(RegistryOf(w, mediator), command)>>)

\* async sendQuery(query) { return this.send(query) }
Mediator_sendQuery(w, mediator, query) ==
  NewOp("sendQuery", mediator, <<query>>,
        <<sendStart(RegistryOf(w, mediator), query)>>)

\* commands.map(command => this.sendCommand(command)) handed to Promise.all
Mediator_sendCommandBatch(w, mediator, commands) ==
  NewOp("sendCommandBatch", mediator, commands,
        [i \in 1..Len(commands) |->
           Mediator_sendCommand(w, mediator, commands[i]).subs[1]])

\* queries.map(query => this.sendQuery(query)) handed to Promise.all
Mediator_sendQueryBatch(w, mediator, queries) ==
  NewOp("sendQueryBatch", mediator, queries,
        [i \in 1..Len(queries) |->
           Mediator_sendQuery(w, mediator, queries[i]).subs[1]])

\* the calls whose handler promises are awaited by send
SendKinds == {"send", "sendBatch", "sendCommand", "sendQuery",
              "sendCommandBatch", "sendQueryBatch"}

\* a send that takes the handler it found out of the Registry
OnMediator_sendOnce(m, request) ==
  /\ ops' = Append(ops, Mediator_send(World, m, request))
  /\ registries' = [registries EXCEPT ![mediators[m]] =
                      IF request.name \in DOMAIN @.requestHandlers
                      THEN [@ EXCEPT !.requestHandlers[request.name] = NoHandler]
                      ELSE @]
  /\ UNCHANGED <<mediators, _instance, _registry,
                 helpers_mediator, middleware_mediator, buildPromise>>

OnMediator_send(m, request) ==
  /\ ops' = Append(ops, Mediator_send(World, m, request))
  /\ UNCHANGED <<registries, mediators, _instance, _registry,
                 helpers_mediator, middleware_mediator, buildPromise>>

OnMediator_publish(m, notification) ==
  /\ ops' = Append(ops, Mediator_publish(World, m, notification))
  /\ UNCHANGED <<registries, mediators, _instance, _registry,
                 helpers_mediator, middleware_mediator, buildPromise>>

\* publish of a notification whose handlers may call the Registry
OnMediator_publishWithEffects(m, notification) ==
  LET started == publishStartWithEffects(RegistryOf(World, m), notification)
  IN  /\ ops' = Append(ops, NewOp("publish", m, <<notification>>, <<started.sub>>))
      /\ registries' = [registries EXCEPT ![mediators[m]] = started.registry]
      /\ UNCHANGED <<mediators, _instance, _registry,
                     helpers_mediator, middleware_mediator, buildPromise>>

OnMediator_sendBatch(m, requests) ==
  /\ ops' = Append(ops, Mediator_sendBatch(World, m, requests))
  /\ UNCHANGED <<registries, mediators, _instance, _registry,
                 helpers_mediator, middleware_mediator, buildPromise>>

OnMediator_publishBatch(m, notifications) ==
  /\ ops' = Append(ops, Mediator_publishBatch(World, m, notifications))
  /\ UNCHANGED <<registries, mediators, _instance, _registry,
                 helpers_mediator, middleware_mediator, buildPromise>>

\* a send that looks the handler up again after its await and answers with
\* what the Registry holds by then
HandlerSettlesLookupAgain(o, s, c) ==
  /\ ops[o].subs[s].calls[c].state = "pending"
  /\ ops' = [ops EXCEPT ![o] =
       UpdateOp(@, s,
         IF @.kind \in SendKinds
         THEN LET sub == @.subs[s]
                  handler == Registry_getHandler(RegistryOf(World, @.mediator),
                                                 sub.input.name)
              IN  IF handler = NoHandler
                  THEN [sub EXCEPT !.calls[c].state = "resolved",
                                   !.state = "fulfilled",
                                   !.value = err(HANDLER_NOT_FOUND(sub.input.name))]
                  ELSE sendResume(sub, HandlerOutcome(handler, sub.input))
         ELSE publishResume(@.subs[s], c))]
  /\ UNCHANGED <<registries, mediators, _instance, _registry,
                 helpers_mediator, middleware_mediator, buildPromise>>

\* a Mediator that keeps the request being dispatched in a field of its own:
\* a send resumed after its await reads the request of the latest call
HandlerSettlesSharedRequest(o, s, c) ==
  /\ ops[o].subs[s].calls[c].state = "pending"
  /\ ops' = [ops EXCEPT ![o] =
       UpdateOp(@, s,
         IF @.kind \in SendKinds
         THEN sendResume([@.subs[s] EXCEPT !.input = ops[Len(ops)].subs[1].input],
                HandlerOutcome(@.subs[s].calls[c].handler,
                               ops[Len(ops)].subs[1].input))
         ELSE publishResume(@.subs[s], c))]
  /\ UNCHANGED <<registries, mediators, _instance, _registry,
                 helpers_mediator, middleware_mediator, buildPromise>>

\* the promise returned by the c-th handler invoked by the s-th dispatch of
\* call o settles, and the dispatch awaiting it goes on
HandlerSettles(o, s, c) ==
  /\ ops[o].subs[s].calls[c].state = "pending"
  /\ ops' = [ops EXCEPT ![o] =
       UpdateOp(@, s,
         IF @.kind \in SendKinds
         THEN sendResume(@.subs[s],
                HandlerOutcome(@.subs[s].calls[c].handler, @.subs[s].input))
         ELSE publishResume(@.subs[s], c))]
  /\ UNCHANGED <<registries, mediators, _instance, _registry,
                 helpers_mediator, middleware_mediator, buildPromise>>

\* the pending handler promises
PendingCalls ==
  {<<o, s, c>> \in (1..Len(ops)) \X (1..MaxBatch + 1) \X (1..MaxSubscribers + 1) :
     /\ s <= Len(ops[o].subs)
     /\ c <= Len(ops[o].subs[s].calls)
     /\ ops[o].subs[s].calls[c].state = "pending"}

(***************************************************************************)
(* Initial states                                                          *)
(***************************************************************************)
\* the modules just loaded: no object yet, every module variable null
InitModule ==
  /\ registries = <<>>
  /\ mediators = <<>>
  /\ _instance = Null
  /\ _registry = Null
  /\ helpers_mediator = Null
  /\ middleware_mediator = Null
  /\ ops = <<>>
  /\ buildPromise = Null

\* const registry = new Registry(); const mediator = new Mediator(registry)
InitPair ==
  /\ registries = <<EmptyRegistry>>
  /\ mediators = <<1>>
  /\ _instance = Null
  /\ _registry = Null
  /\ helpers_mediator = Null
  /\ middleware_mediator = Null
  /\ ops = <<>>
  /\ buildPromise = Null

(***************************************************************************)
(* SpecSend: send on a Registry and Mediator built by hand                 *)
(***************************************************************************)
SendHandlers ==
  {"hOk", "hFail", "hThrow", "hReject", "hUndefined", "hNull", "hPlain", "hOkField"}

SendRequests == RequestInstances \cup {NullRequest}

NextSend ==
  \/ \E r \in 1..Len(registries), k \in RequestTypes, h \in SendHandlers :
       OnRegistry_registerHandler(r, k, h)
  \/ \E r \in 1..Len(registries) : OnRegistry_reset(r)
  \/ \E m \in 1..Len(mediators), request \in SendRequests :
       Len(ops) < SendCalls /\ OnMediator_send(m, request)
  \/ \E call \in PendingCalls : HandlerSettles(call[1], call[2], call[3])

SpecSend == InitPair /\ [][NextSend]_vars

(***************************************************************************)
(* SpecBatch: one sendBatch call on a Registry and Mediator built by hand,  *)
(* among registrations and resets                                          *)
(***************************************************************************)
BatchHandlers == {"hOk", "hReject", "hThrow"}

\* the lists of at most n elements of S
ListsUpTo(S, n) == UNION {[1..len -> S] : len \in 0..n}

NextBatch ==
  \/ \E r \in 1..Len(registries), k \in RequestTypes, h \in BatchHandlers :
       OnRegistry_registerHandler(r, k, h)
  \/ \E r \in 1..Len(registries) : OnRegistry_reset(r)
  \/ \E m \in 1..Len(mediators), requests \in ListsUpTo(SendRequests, MaxBatch) :
       ops = <<>> /\ OnMediator_sendBatch(m, requests)
  \/ \E call \in PendingCalls : HandlerSettles(call[1], call[2], call[3])

SpecBatch == InitPair /\ [][NextBatch]_vars

(***************************************************************************)
(* Vocabulary of the properties                                            *)
(***************************************************************************)
\* a failure Result whose first error has the given code
FailsWith(value, code) ==
  /\ value.kind = "object"
  /\ value.ok = "false"
  /\ Len(value.errors) >= 1
  /\ value.errors[1].code = code

\* a value that exposes the success/failure predicates of a Result
WellFormedResult(value) == value.kind = "object" /\ value.guards

\* a value that ok(...) or err(...) of ts-micro-result returned
BuiltByResultLibrary(value) ==
  \/ value = ok(value.data)
  \/ Len(value.errors) = 1 /\ value = err(value.errors[1])

\* the step is a call that returned the promise ops'[Len(ops')]
IsCall(kind) ==
  /\ Len(ops') = Len(ops) + 1
  /\ ops'[Len(ops')].kind = kind

\* the send calls made so far
SendOps == {o \in 1..Len(ops) : ops[o].kind = "send"}

\* the handler a send invoked has failed: it threw, or its promise rejected
HandlerFailed(op) ==
  /\ Len(op.subs[1].calls) = 1
  /\ op.subs[1].calls[1].state \in {"threw", "rejected"}

\* the handler a send invoked has resolved to `value`
HandlerResolvedTo(op, value) ==
  /\ Len(op.subs[1].calls) = 1
  /\ op.subs[1].calls[1].state = "resolved"
  /\ value = HandlerOutcome(op.subs[1].calls[1].handler, op.input[1]).value

(***************************************************************************)
(* C2: a send of a request whose type-key has no handler in the Registry   *)
(* of the Mediator, at the moment of the call, resolves to a failure       *)
(* Result whose first error is HANDLER_NOT_FOUND, and invokes no handler.  *)
(***************************************************************************)
C2_HandlerNotFound ==
  [][(/\ IsCall("send")
      /\ ops'[Len(ops')].input[1].kind = "instance"
      /\ registries[mediators[ops'[Len(ops')].mediator]]
           .requestHandlers[ops'[Len(ops')].input[1].name] = NoHandler)
     => (/\ ops'[Len(ops')].state = "fulfilled"
         /\ FailsWith(ops'[Len(ops')].values[1], "HANDLER_NOT_FOUND")
         /\ ops'[Len(ops')].subs[1].calls = <<>>)]_vars

\* a send answered HANDLER_NOT_FOUND for one key while the other key has a handler
C2_Witness ==
  \E o \in SendOps :
    /\ ops[o].input[1].kind = "instance"
    /\ ops[o].state = "fulfilled"
    /\ FailsWith(ops[o].values[1], "HANDLER_NOT_FOUND")
    /\ ops[o].subs[1].calls = <<>>
    /\ \E k \in RequestTypes :
         /\ k # ops[o].input[1].name
         /\ registries[mediators[ops[o].mediator]].requestHandlers[k] # NoHandler

(***************************************************************************)
(* C3: a send whose handler fails, by throwing when invoked or by          *)
(* returning a promise that rejects, is never rejected; once the handler   *)
(* has failed the send is resolved to a failure Result whose first error   *)
(* is HANDLER_ERROR.                                                       *)
(***************************************************************************)
C3_HandlerError ==
  \A o \in SendOps :
    /\ HandlerFailed(ops[o]) =>
         /\ ops[o].state = "fulfilled"
         /\ FailsWith(ops[o].values[1], "HANDLER_ERROR")
    /\ (/\ Len(ops[o].subs[1].calls) = 1
        /\ LET h == ops[o].subs[1].calls[1].handler
           IN  ThrowsWhenInvoked(h) \/ HandlerOutcome(h, ops[o].input[1]).rejected)
       => ops[o].state # "rejected"

\* a send whose handler returned a promise that has rejected
C3_Witness ==
  \E o \in SendOps :
    /\ HandlerFailed(ops[o])
    /\ ops[o].subs[1].calls[1].state = "rejected"
    /\ ops[o].state = "fulfilled"
    /\ FailsWith(ops[o].values[1], "HANDLER_ERROR")

(***************************************************************************)
(* C4 as claimed: when the handler resolves to a value that is not a       *)
(* well-formed Result (undefined, null, a plain object, any object without *)
(* the predicate functions), send resolves to a failure Result whose first *)
(* error is INVALID_HANDLER_RESULT and does not return the handler's value.*)
(***************************************************************************)
C4_InvalidHandlerResult ==
  \A o \in SendOps :
    \A h \in RequestHandlerNames :
      LET value == HandlerOutcome(h, ops[o].input[1]).value
      IN  (/\ HandlerResolvedTo(ops[o], value)
           /\ ops[o].subs[1].calls[1].handler = h
           /\ ~WellFormedResult(value))
          => (/\ ops[o].state = "fulfilled"
              /\ FailsWith(ops[o].values[1], "INVALID_HANDLER_RESULT")
              /\ ops[o].values[1] # value)

C6_SendNeverRejects ==
  \A o \in SendOps :
    /\ ops[o].state # "rejected"
    /\ ops[o].state = "fulfilled" =>
         \/ HandlerResolvedTo(ops[o], ops[o].values[1])
         \/ \E code \in {"HANDLER_NOT_FOUND", "HANDLER_ERROR", "INVALID_HANDLER_RESULT"} :
              /\ FailsWith(ops[o].values[1], code)
              /\ Len(ops[o].values[1].errors) = 1

(***************************************************************************)
(* C7: for a list of request instances, the list sendBatch resolves to has *)
(* the length of the input, and its i-th element is the Result of the send *)
(* of the i-th request, whatever the order in which the handlers settle:   *)
(* the value of each send is stored at the position of its request as soon *)
(* as that send resolves, and the batch resolves once all have.            *)
(***************************************************************************)
BatchOps == {o \in 1..Len(ops) : ops[o].kind = "sendBatch"}

C7_BatchOrder ==
  \A o \in BatchOps :
    (\A i \in 1..Len(ops[o].input) : ops[o].input[i].kind = "instance") =>
      /\ Len(ops[o].values) = Len(ops[o].input)
      /\ Len(ops[o].subs) = Len(ops[o].input)
      /\ \A i \in 1..Len(ops[o].input) :
           /\ ops[o].subs[i].input = ops[o].input[i]
           /\ ops[o].subs[i].state # "rejected"
           /\ ops[o].values[i] = ops[o].subs[i].value
      /\ ops[o].state =
           IF \A i \in 1..Len(ops[o].input) : ops[o].subs[i].state = "fulfilled"
           THEN "fulfilled" ELSE "pending"

\* the handler of a later request settled first, with a different Result
C7_Witness ==
  \E o \in BatchOps :
    \E i, j \in 1..Len(ops[o].input) :
      /\ i < j
      /\ \A n \in 1..Len(ops[o].input) : ops[o].input[n].kind = "instance"
      /\ ops[o].subs[i].state = "pending"
      /\ ops[o].subs[j].state = "fulfilled"
      /\ ops[o].subs[j].calls # <<>>
      /\ ops[o].subs[j].calls[1].state = "resolved"
      /\ ops[o].values[j] = ok(<<"hOk", ops[o].input[j].name>>)
      /\ ops[o].input[i] # ops[o].input[j]

(***************************************************************************)
(* SpecPublish: one publish call on a Registry and Mediator built by hand,  *)
(* among registrations and resets                                          *)
(***************************************************************************)
PublishInputs == NotificationInstances \cup {NullRequest}

NextPublish ==
  \/ \E r \in 1..Len(registries), k \in NotificationTypes,
        h \in NotificationHandlerNames :
       OnRegistry_registerNotificationHandler(r, k, h)
  \/ \E r \in 1..Len(registries) : OnRegistry_reset(r)
  \/ \E m \in 1..Len(mediators), notification \in PublishInputs :
       ops = <<>> /\ OnMediator_publish(m, notification)
  \/ \E call \in PendingCalls : HandlerSettles(call[1], call[2], call[3])

SpecPublish == InitPair /\ [][NextPublish]_vars

\* the publish calls made so far
PublishOps == {o \in 1..Len(ops) : ops[o].kind = "publish"}

\* the handlers a dispatch has invoked, in the order of their invocation
Invoked(sub) == [i \in 1..Len(sub.calls) |-> sub.calls[i].handler]

(***************************************************************************)
(* C8 as claimed: the promise returned by publish of a notification is     *)
(* never rejected, whatever each registered handler does when invoked      *)
(* (resolves, returns a promise that rejects, throws), also when every     *)
(* handler fails and when none is registered.                              *)
(***************************************************************************)
C8_PublishNeverRejects ==
  \A o \in PublishOps :
    ops[o].input[1].kind = "instance" => ops[o].state # "rejected"

(***************************************************************************)
(* C9 as claimed: a publish of a notification whose type-key has the       *)
(* handler list L in the Registry invokes every handler of L exactly once, *)
(* in spite of the failure of any of them, and reports no failure to the   *)
(* caller.                                                                 *)
(***************************************************************************)
C9_EveryHandlerInvokedOnce ==
  [][(/\ IsCall("publish")
      /\ ops'[Len(ops')].input[1].kind = "instance")
     => (/\ Invoked(ops'[Len(ops')].subs[1]) =
              registries[mediators[ops'[Len(ops')].mediator]]
                .notificationHandlers[ops'[Len(ops')].input[1].name]
         /\ ops'[Len(ops')].state # "rejected")]_vars

(***************************************************************************)
(* Convenience API (helpers.ts, middleware.ts)                             *)
(***************************************************************************)
\* the handlers list applied from its last entry to its first
RECURSIVE ForEachHandlerReversed(_, _, _)
ForEachHandlerReversed(registry, entries, i) ==
  IF i > Len(entries) THEN registry
  ELSE ForEachHandlerReversed(
         Registry_registerHandler(registry, entries[Len(entries) + 1 - i].type,
                                  entries[Len(entries) + 1 - i].handler),
         entries, i + 1)

\* registrations.handlers?.forEach(...), from entry i on
RECURSIVE ForEachHandler(_, _, _)
ForEachHandler(registry, entries, i) ==
  IF i > Len(entries) THEN registry
  ELSE ForEachHandler(
         Registry_registerHandler(registry, entries[i].type, entries[i].handler),
         entries, i + 1)

\* registrations.notificationHandlers?.forEach(...), from entry i on
RECURSIVE ForEachNotificationHandler(_, _, _)
ForEachNotificationHandler(registry, entries, i) ==
  IF i > Len(entries) THEN registry
  ELSE ForEachNotificationHandler(
         Registry_registerNotificationHandler(registry, entries[i].type,
                                              entries[i].handler),
         entries, i + 1)

\* registrations.requestClasses?.forEach(...), from entry i on
RECURSIVE ForEachRequestClass(_, _, _)
ForEachRequestClass(registry, classes, i) ==
  IF i > Len(classes) THEN registry
  ELSE ForEachRequestClass(Registry_registerRequestClass(registry, classes[i]),
                           classes, i + 1)

\* registrations.notificationClasses?.forEach(...), from entry i on
RECURSIVE ForEachNotificationClass(_, _, _)
ForEachNotificationClass(registry, classes, i) ==
  IF i > Len(classes) THEN registry
  ELSE ForEachNotificationClass(
         Registry_registerNotificationClass(registry, classes[i]), classes, i + 1)

\* the longest notification-handler list of any Registry of w
LongestList(w) ==
  LET lengths == {Len(w.registries[r].notificationHandlers[k]) :
                    r \in 1..Len(w.registries), k \in NotificationTypes}
  IN  IF lengths = {} THEN 0 ELSE CHOOSE n \in lengths : \A l \in lengths : l <= n

\* the bounds of the model on a world
WithinBounds(w) == WithinHeap(w) /\ LongestList(w) <= MaxSubscribers

\* a call of the convenience API that takes the world to w
ApiStep(w) ==
  /\ WithinBounds(w)
  /\ SetWorld(w)
  /\ UNCHANGED ops

\* a call of the convenience API that takes the world to w and returns op
ApiDispatch(w, op) ==
  /\ WithinBounds(w)
  /\ SetWorld(w)
  /\ ops' = Append(ops, op)

\* helpers.ts registerHandler on the world w
helpers_registerHandler(w, requestType, handler) ==
  LET m == ensureMediator(w)
  IN  WithRegistry(m, m.helpers_mediator,
        Registry_registerHandler(RegistryOf(m, m.helpers_mediator),
                                 requestType, handler))

\* helpers.ts registerNotificationHandler on the world w
helpers_registerNotificationHandler(w, notificationType, handler) ==
  LET m == ensureMediator(w)
  IN  WithRegistry(m, m.helpers_mediator,
        Registry_registerNotificationHandler(RegistryOf(m, m.helpers_mediator),
                                             notificationType, handler))

\* helpers.ts registerRequestClass on the world w
helpers_registerRequestClass(w, requestClass) ==
  LET m == ensureMediator(w)
  IN  WithRegistry(m, m.helpers_mediator,
        Registry_registerRequestClass(RegistryOf(m, m.helpers_mediator),
                                      requestClass))

\* helpers.ts registerNotificationClass on the world w
helpers_registerNotificationClass(w, notificationClass) ==
  LET m == ensureMediator(w)
  IN  WithRegistry(m, m.helpers_mediator,
        Registry_registerNotificationClass(RegistryOf(m, m.helpers_mediator),
                                           notificationClass))

\* registrations.<field>?. : the property is present in the argument
Given(registrations, field) == field \in DOMAIN registrations

\* helpers.ts registerBatch on the world w: the four optional lists in the
\* order of the code, each with forEach
helpers_registerBatch(w, registrations) ==
  LET m == ensureMediator(w)
      start == RegistryOf(m, m.helpers_mediator)
      afterHandlers ==
        IF Given(registrations, "handlers")
        THEN ForEachHandler(start, registrations.handlers, 1) ELSE start
      afterNotificationHandlers ==
        IF Given(registrations, "notificationHandlers")
        THEN ForEachNotificationHandler(afterHandlers,
                                        registrations.notificationHandlers, 1)
        ELSE afterHandlers
      afterRequestClasses ==
        IF Given(registrations, "requestClasses")
        THEN ForEachRequestClass(afterNotificationHandlers,
                                 registrations.requestClasses, 1)
        ELSE afterNotificationHandlers
      afterNotificationClasses ==
        IF Given(registrations, "notificationClasses")
        THEN ForEachNotificationClass(afterRequestClasses,
                                      registrations.notificationClasses, 1)
        ELSE afterRequestClasses
  IN  WithRegistry(m, m.helpers_mediator, afterNotificationClasses)

registerHandler(requestType, handler) ==
  ApiStep(helpers_registerHandler(World, requestType, handler))

registerNotificationHandler(notificationType, handler) ==
  ApiStep(helpers_registerNotificationHandler(World, notificationType, handler))

registerRequestClass(requestClass) ==
  ApiStep(helpers_registerRequestClass(World, requestClass))

registerNotificationClass(notificationClass) ==
  ApiStep(helpers_registerNotificationClass(World, notificationClass))

registerBatch(registrations) ==
  ApiStep(helpers_registerBatch(World, registrations))

\* getRegistryStats(): the stats are returned, the singleton may be created
getRegistryStats == ApiStep(ensureMediator(World))

resetRegistry ==
  ApiStep([MediatorFactory_reset(World) EXCEPT !.helpers_mediator = Null])

sendBatch(requests) ==
  LET w == ensureMediator(World)
  IN  ApiDispatch(w, Mediator_sendBatch(w, w.helpers_mediator, requests))

publishBatch(notifications) ==
  LET w == ensureMediator(World)
  IN  ApiDispatch(w, Mediator_publishBatch(w, w.helpers_mediator, notifications))

sendRequest(request) ==
  LET w == getMediator(World)
  IN  ApiDispatch(w, Mediator_send(w, w.middleware_mediator, request))

sendCommand(command) ==
  LET w == getMediator(World)
  IN  ApiDispatch(w, Mediator_sendCommand(w, w.middleware_mediator, command))

sendQuery(query) ==
  LET w == getMediator(World)
  IN  ApiDispatch(w, Mediator_sendQuery(w, w.middleware_mediator, query))

publishNotification(notification) ==
  LET w == getMediator(World)
  IN  ApiDispatch(w, Mediator_publish(w, w.middleware_mediator, notification))

\* getMediatorStats(): the stats are returned, the singleton may be created
getMediatorStats == ApiStep(getMediator(World))

(***************************************************************************)
(* SpecApi: the application uses the convenience API only                  *)
(***************************************************************************)
ApiRequestTypes == {"A"}
ApiNotificationTypes == {"N"}
ApiHandlers == {"hOk", "hOk2"}
ApiNotificationHandlers == {"nResolve"}

\* the arguments of registerBatch: each list empty or of one entry
ApiRegistrations ==
  [handlers : ListsUpTo([type : ApiRequestTypes, handler : ApiHandlers], 1),
   notificationHandlers :
     ListsUpTo([type : ApiNotificationTypes, handler : ApiNotificationHandlers], 1),
   requestClasses : ListsUpTo({Class(k, "first") : k \in ApiRequestTypes}, 1),
   notificationClasses :
     ListsUpTo({Class(k, "first") : k \in ApiNotificationTypes}, 1)]

NextApi ==
  \/ \E k \in ApiRequestTypes, h \in ApiHandlers : registerHandler(k, h)
  \/ \E k \in ApiNotificationTypes, h \in ApiNotificationHandlers :
       registerNotificationHandler(k, h)
  \/ \E registrations \in ApiRegistrations : registerBatch(registrations)
  \/ getRegistryStats
  \/ getMediatorStats
  \/ resetRegistry
  \/ \E k \in ApiRequestTypes : Len(ops) < ApiCalls /\ sendRequest(Instance(k))
  \/ \E k \in ApiNotificationTypes :
       Len(ops) < ApiCalls /\ publishNotification(Instance(k))
  \/ \E requests \in ListsUpTo({Instance(k) : k \in ApiRequestTypes}, 1) :
       Len(ops) < ApiCalls /\ sendBatch(requests)
  \/ \E notifications \in ListsUpTo({Instance(k) : k \in ApiNotificationTypes}, 1) :
       Len(ops) < ApiCalls /\ publishBatch(notifications)
  \/ \E call \in PendingCalls : HandlerSettles(call[1], call[2], call[3])

SpecApi == InitModule /\ [][NextApi]_vars

(***************************************************************************)
(* C1 as claimed: through any sequence of convenience-API calls the        *)
(* registration functions and the send functions work on the same pair: a  *)
(* sendRequest of an instance of class K invokes the handler that          *)
(* registerHandler(K, .) left in the Registry the registration functions   *)
(* use.                                                                    *)
(***************************************************************************)
C1_SamePair ==
  [][\A k \in ApiRequestTypes :
       (/\ IsCall("send")
        /\ ops'[Len(ops')].input[1] = Instance(k)
        /\ helpers_mediator # Null
        /\ registries[mediators[helpers_mediator]].requestHandlers[k] # NoHandler)
       => Invoked(ops'[Len(ops')].subs[1]) =
            <<registries[mediators[helpers_mediator]].requestHandlers[k]>>]_vars

(***************************************************************************)
(* SpecLifecycle: the application registers through the convenience API    *)
(* and on the Registry objects it holds, creates and resets the singleton, *)
(* resets registries, and sends on the Mediator objects it holds.          *)
(***************************************************************************)
LifecycleHandlers == {"hOk"}
LifecycleNotificationHandlers == {"nResolve"}

NextLifecycle ==
  \/ OnFactory_create /\ Len(registries') <= LifecyclePairs
  \/ OnFactory_reset
  \/ resetRegistry
  \/ getRegistryStats /\ Len(registries') <= LifecyclePairs
  \/ \E r \in 1..Len(registries) : OnRegistry_reset(r)
  \/ \E k \in ApiRequestTypes, h \in LifecycleHandlers :
       registerHandler(k, h) /\ Len(registries') <= LifecyclePairs
  \/ \E k \in ApiNotificationTypes, h \in LifecycleNotificationHandlers :
       registerNotificationHandler(k, h) /\ Len(registries') <= LifecyclePairs
  \/ \E k \in ApiRequestTypes :
       /\ registerRequestClass(Class(k, "first"))
       /\ Len(registries') <= LifecyclePairs
  \/ \E k \in ApiNotificationTypes :
       /\ registerNotificationClass(Class(k, "first"))
       /\ Len(registries') <= LifecyclePairs
  \/ \E k \in ApiRequestTypes, h \in LifecycleHandlers :
       _registry # Null /\ OnRegistry_registerHandler(_registry, k, h)
  \/ \E k \in ApiNotificationTypes, h \in LifecycleNotificationHandlers :
       _registry # Null /\ OnRegistry_registerNotificationHandler(_registry, k, h)
  \/ \E k \in ApiRequestTypes :
       _registry # Null /\ OnRegistry_registerRequestClass(_registry, Class(k, "first"))
  \/ \E k \in ApiNotificationTypes :
       /\ _registry # Null
       /\ OnRegistry_registerNotificationClass(_registry, Class(k, "first"))
  \/ \E m \in 1..Len(mediators), k \in ApiRequestTypes :
       ops = <<>> /\ OnMediator_send(m, Instance(k))
  \/ \E call \in PendingCalls : HandlerSettles(call[1], call[2], call[3])

SpecLifecycle == InitModule /\ [][NextLifecycle]_vars

\* what getStats returns on a Registry where nothing was ever registered
ZeroStats == Registry_getStats(EmptyRegistry)

\* a Registry answers getStats, send and publish as a Registry where
\* nothing was ever registered does
BehavesAsNew(registry) ==
  /\ Registry_getStats(registry) =
       [requestHandlers |-> 0, notificationHandlers |-> 0,
        requestClasses |-> 0, notificationClasses |-> 0]
  /\ \A request \in RequestInstances :
       /\ sendStart(registry, request).state = "fulfilled"
       /\ FailsWith(sendStart(registry, request).value, "HANDLER_NOT_FOUND")
  /\ \A notification \in NotificationInstances :
       publishStart(registry, notification).calls = <<>>
  /\ \A request \in SendRequests :
       sendStart(registry, request) = sendStart(EmptyRegistry, request)
  /\ \A notification \in PublishInputs :
       publishStart(registry, notification) =
         publishStart(EmptyRegistry, notification)

(***************************************************************************)
(* C10: a reset leaves the Registry it resets (the receiver of             *)
(* Registry.reset, the singleton's Registry for MediatorFactory.reset and  *)
(* resetRegistry) with getStats zero in all four counts, whatever was      *)
(* registered in it before; a send of any request instance on it then      *)
(* resolves to HANDLER_NOT_FOUND and a publish on it invokes no handler,   *)
(* as on a Registry where nothing was ever registered; after               *)
(* resetRegistry, getRegistryStats returns four zeros too.                 *)
(***************************************************************************)
C10_ResetEmptiesRegistry ==
  [][/\ \A r \in 1..Len(registries) :
          OnRegistry_reset(r) => BehavesAsNew(registries'[r])
     /\ (_registry # Null /\ _instance' = Null /\ (OnFactory_reset \/ resetRegistry))
          => BehavesAsNew(registries'[_registry])
     /\ (helpers_mediator' = Null /\ _instance' = Null /\ resetRegistry)
          => Registry_getStats(RegistryOf(ensureMediator(World'),
                                 ensureMediator(World').helpers_mediator))
               = ZeroStats]_vars

\* C10 witness: a dispatch found and invoked a handler of a Registry that a
\* reset has emptied since
C10_Witness ==
  \E o \in 1..Len(ops) :
    /\ ops[o].subs[1].calls # <<>>
    /\ Registry_getStats(registries[mediators[ops[o].mediator]]) = ZeroStats

(***************************************************************************)
(* SpecOverwrite: handlers registered and registered again under the same  *)
(* keys of a Registry built by hand, among sends                           *)
(***************************************************************************)
NextOverwrite ==
  \/ \E r \in 1..Len(registries), k \in RequestTypes, h \in ApiHandlers :
       OnRegistry_registerHandler(r, k, h)
  \/ \E m \in 1..Len(mediators), k \in RequestTypes :
       Len(ops) < OverwriteSends /\ OnMediator_send(m, Instance(k))
  \/ \E call \in PendingCalls : HandlerSettles(call[1], call[2], call[3])

SpecOverwrite == InitPair /\ [][NextOverwrite]_vars

(***************************************************************************)
(* C11: in every reachable Registry, registering a request handler h2      *)
(* under a key that already has a handler h1 leaves h2 as the only handler *)
(* of the key and changes neither the requestHandlers count nor the other  *)
(* keys, and a send of that key on the Registry so left invokes h2 and     *)
(* nothing else; every send invokes exactly the handler its key has in the *)
(* Registry at the call.                                                   *)
(***************************************************************************)
C11_LastRegistrationWins ==
  /\ [](\A r \in 1..Len(registries), k \in RequestTypes, h2 \in ApiHandlers :
          registries[r].requestHandlers[k] # NoHandler =>
            LET registered == Registry_registerHandler(registries[r], k, h2)
            IN  /\ Registry_getHandler(registered, k) = h2
                /\ Registry_getStats(registered).requestHandlers =
                     Registry_getStats(registries[r]).requestHandlers
                /\ \A other \in RequestTypes \ {k} :
                     Registry_getHandler(registered, other) =
                       Registry_getHandler(registries[r], other)
                /\ Invoked(sendStart(registered, Instance(k))) = <<h2>>)
  /\ [][(/\ IsCall("send")
         /\ registries[mediators[ops'[Len(ops')].mediator]]
              .requestHandlers[ops'[Len(ops')].input[1].name] # NoHandler)
        => Invoked(ops'[Len(ops')].subs[1]) =
             <<registries[mediators[ops'[Len(ops')].mediator]]
                 .requestHandlers[ops'[Len(ops')].input[1].name]>>]_vars

\* C11 witness: two sends of one key on one Mediator; the first invoked h1,
\* the second, after the registration of h2, invoked h2
C11_Witness ==
  \E o1, o2 \in SendOps :
    /\ o1 < o2
    /\ ops[o1].mediator = ops[o2].mediator
    /\ ops[o1].input = ops[o2].input
    /\ Invoked(ops[o1].subs[1]) = <<"hOk">>
    /\ Invoked(ops[o2].subs[1]) = <<"hOk2">>
    /\ registries[mediators[ops[o2].mediator]]
         .requestHandlers[ops[o2].input[1].name] = "hOk2"
    /\ Registry_getStats(registries[mediators[ops[o2].mediator]]).requestHandlers = 1

(***************************************************************************)
(* SpecFactory: the application calls MediatorFactory (create, reset,      *)
(* createWithRegistry), constructs Registry objects, and registers in and  *)
(* resets the Registry objects it holds.                                   *)
(***************************************************************************)
NextFactory ==
  \/ OnFactory_create /\ Len(mediators') <= MaxMediators
  \/ OnFactory_reset
  \/ OnNewRegistry
  \/ \E r \in 1..Len(registries) :
       Len(mediators) < MaxMediators /\ OnFactory_createWithRegistry(r)
  \/ \E r \in 1..Len(registries), k \in ApiRequestTypes, h \in LifecycleHandlers :
       OnRegistry_registerHandler(r, k, h)
  \/ \E r \in 1..Len(registries), k \in ApiNotificationTypes :
       OnRegistry_registerNotificationClass(r, Class(k, "first"))
  \/ \E r \in 1..Len(registries) : OnRegistry_reset(r)

SpecFactory == InitModule /\ [][NextFactory]_vars

(***************************************************************************)
(* C12: while a singleton exists, create() returns it and changes nothing, *)
(* and it is bound to the singleton Registry; no step other than one that  *)
(* discards the singleton (reset) changes which Mediator and which         *)
(* Registry are the singleton, and a create() with no singleton stores a   *)
(* newly constructed pair.                                                 *)
(***************************************************************************)
C12_CreateIdempotent ==
  /\ [](/\ (_instance = Null) = (_registry = Null)
        /\ _instance # Null =>
             /\ mediators[_instance] = _registry
             /\ MediatorFactory_create(World) = World
             /\ MediatorFactory_create(World)._instance = _instance
        /\ _instance = Null =>
             /\ MediatorFactory_create(World)._instance = Len(mediators) + 1
             /\ MediatorFactory_create(World)._registry = Len(registries) + 1
             /\ MediatorFactory_create(MediatorFactory_create(World)) =
                  MediatorFactory_create(World))
  /\ [][_instance # Null =>
          \/ _instance' = _instance /\ _registry' = _registry
          \/ _instance' = Null /\ _registry' = Null]_vars

\* C12 witness: the singleton created first is still the singleton after
\* other Mediator objects were constructed, and its Registry has been used
C12_Witness ==
  /\ _instance = 1
  /\ _registry = 1
  /\ Len(mediators) > 1
  /\ Registry_getStats(registries[_registry]).requestHandlers = 1

(***************************************************************************)
(* C13: in every reachable state, reset() leaves no singleton, empties the *)
(* Registry that was the singleton's and touches no other object; the      *)
(* create() after it returns a Mediator that did not exist before, bound   *)
(* to a new, empty Registry; with no singleton reset() changes nothing,    *)
(* and a second reset() changes nothing more.                              *)
(***************************************************************************)
C13_ResetDiscardsSingleton ==
  LET after == MediatorFactory_reset(World)
      next  == MediatorFactory_create(after)
  IN  /\ after._instance = Null
      /\ after._registry = Null
      /\ after.mediators = mediators
      /\ Len(after.registries) = Len(registries)
      /\ \A r \in 1..Len(registries) :
           after.registries[r] =
             IF r = _registry THEN EmptyRegistry ELSE registries[r]
      /\ next._instance \notin 1..Len(mediators)
      /\ next._instance # _instance
      /\ next._registry \notin 1..Len(registries)
      /\ next.mediators[next._instance] = next._registry
      /\ Registry_getStats(next.registries[next._registry]) = ZeroStats
      /\ _instance = Null => after = World
      /\ MediatorFactory_reset(after) = after

\* C13 witness: a second singleton pair exists beside the first pair, whose
\* Registry is empty, and the second Registry has been used
C13_Witness ==
  /\ mediators = <<1, 2>>
  /\ _instance = 2
  /\ _registry = 2
  /\ registries[1] = EmptyRegistry
  /\ Registry_getStats(registries[2]).requestHandlers = 1

(***************************************************************************)
(* C14: createWithRegistry(registry) constructs one new Mediator bound to  *)
(* the given Registry and changes nothing else: the singleton Mediator and *)
(* getRegistry() are the same before and after, with or without a          *)
(* singleton, and so is what create() returns when a singleton exists.     *)
(***************************************************************************)
C14_CreateWithRegistryFrame ==
  [][\A r \in 1..Len(registries) :
       OnFactory_createWithRegistry(r) =>
         /\ Len(mediators') = Len(mediators) + 1
         /\ mediators'[Len(mediators')] = r
         /\ \A m \in 1..Len(mediators) : mediators'[m] = mediators[m]
         /\ registries' = registries
         /\ _instance' = _instance
         /\ MediatorFactory_getRegistry(World') = MediatorFactory_getRegistry(World)
         /\ _instance # Null =>
              MediatorFactory_create(World')._instance =
                MediatorFactory_create(World)._instance
         /\ _instance = Null =>
              MediatorFactory_create(World')._instance # Len(mediators')]_vars

\* C14 witness: two Mediator objects bound to the singleton Registry, one
\* of them the singleton, and one more built with no singleton in place
C14_Witness ==
  \/ /\ _instance # Null
     /\ \E m \in 1..Len(mediators) : m # _instance /\ mediators[m] = _registry
  \/ /\ _instance = Null
     /\ \E m1, m2 \in 1..Len(mediators) : m1 # m2 /\ mediators[m1] = mediators[m2]
        /\ Registry_getStats(registries[mediators[m1]]).notificationClasses = 1

(***************************************************************************)
(* SpecPublishBatch: registrations on a Registry built by hand, then one   *)
(* publishBatch call on its Mediator, among resets.  The handlers are      *)
(* looked up in the synchronous part of the call (SpecPublish interleaves  *)
(* registrations with a pending publish).                                  *)
(***************************************************************************)
\* the number of notification handlers a Registry holds, over all keys
RECURSIVE SubscriberCount(_, _)
SubscriberCount(registry, keys) ==
  IF keys = {} THEN 0
  ELSE LET k == CHOOSE key \in keys : TRUE
       IN  Len(registry.notificationHandlers[k]) + SubscriberCount(registry, keys \ {k})

NextPublishBatch ==
  \/ \E r \in 1..Len(registries), k \in NotificationTypes,
        h \in NotificationHandlerNames :
       /\ SubscriberCount(registries[r], NotificationTypes) < MaxSubscribers
       /\ ops = <<>>
       /\ OnRegistry_registerNotificationHandler(r, k, h)
  \/ \E r \in 1..Len(registries) : OnRegistry_reset(r)
  \/ \E m \in 1..Len(mediators),
        notifications \in ListsUpTo(PublishInputs, MaxPublishBatch) :
       ops = <<>> /\ OnMediator_publishBatch(m, notifications)
  \/ \E call \in PendingCalls : HandlerSettles(call[1], call[2], call[3])

SpecPublishBatch == InitPair /\ [][NextPublishBatch]_vars

\* the publishBatch calls made so far
PublishBatchOps == {o \in 1..Len(ops) : ops[o].kind = "publishBatch"}

\* the publish of one notification has settled
Settled(sub) == sub.state \in {"fulfilled", "rejected"}

(***************************************************************************)
(* C15: the promise returned by publishBatch is never rejected, whatever   *)
(* the list holds and the handlers do; it is resolved exactly when the     *)
(* publish of every notification of the list has settled; and the publish  *)
(* of each notification is the one a lone publish of it on the Registry at *)
(* the call would be, whatever happens to the others.                      *)
(***************************************************************************)
C15_PublishBatchResolves ==
  /\ [](\A o \in PublishBatchOps :
          /\ ops[o].state # "rejected"
          /\ Len(ops[o].subs) = Len(ops[o].input)
          /\ (ops[o].state = "fulfilled") =
               (\A i \in 1..Len(ops[o].subs) : Settled(ops[o].subs[i])))
  /\ [][IsCall("publishBatch") =>
          \A i \in 1..Len(ops'[Len(ops')].input) :
            ops'[Len(ops')].subs[i] =
              publishStart(registries[mediators[ops'[Len(ops')].mediator]],
                           ops'[Len(ops')].input[i])]_vars

\* C15 witness: the publish of the first notification was rejected by a
\* throwing handler, the handler of the second notification was invoked and
\* its promise rejected, and publishBatch has resolved
C15_Witness ==
  \E o \in PublishBatchOps :
    /\ Len(ops[o].input) = 2
    /\ ops[o].input[1] # ops[o].input[2]
    /\ ops[o].subs[1].state = "rejected"
    /\ ops[o].subs[1].calls # <<>>
    /\ ops[o].subs[2].calls # <<>>
    /\ ops[o].subs[2].calls[1].state = "rejected"
    /\ ops[o].subs[2].state = "fulfilled"
    /\ ops[o].state = "fulfilled"

\* the value a send resolved to is a failure Result with one of the three
\* standard codes, built for the type-key of its own request
StandardFailure(sub) ==
  \E code \in {"HANDLER_NOT_FOUND", "HANDLER_ERROR", "INVALID_HANDLER_RESULT"} :
    /\ FailsWith(sub.value, code)
    /\ Len(sub.value.errors) = 1

(***************************************************************************)
(* C16 as claimed: the promise returned by sendBatch is never rejected,    *)
(* whatever list of requests it is given; it holds one Result per request, *)
(* and the Result at each position is that of the send of the request at   *)
(* that position (the value its own handler resolved to, or a failure      *)
(* Result with one of the three standard codes), whatever the sends at the *)
(* other positions end in; an empty list resolves to an empty list.        *)
(***************************************************************************)
C16_BatchIndependent ==
  \A o \in BatchOps :
    /\ ops[o].state # "rejected"
    /\ Len(ops[o].subs) = Len(ops[o].input)
    /\ Len(ops[o].values) = Len(ops[o].input)
    /\ ops[o].input = <<>> => ops[o].state = "fulfilled" /\ ops[o].values = <<>>
    /\ \A i \in 1..Len(ops[o].input) :
         /\ ops[o].subs[i].state # "rejected"
         /\ ops[o].subs[i].state = "fulfilled" =>
              /\ ops[o].values[i] = ops[o].subs[i].value
              /\ \/ StandardFailure(ops[o].subs[i])
                 \/ /\ Len(ops[o].subs[i].calls) = 1
                    /\ ops[o].subs[i].calls[1].state = "resolved"
                    /\ ops[o].subs[i].value =
                         HandlerOutcome(ops[o].subs[i].calls[1].handler,
                                        ops[o].input[i]).value

\* the sends that resolved to a Result built by the Mediator itself: no
\* handler was invoked, the handler failed, or its value was refused
BuiltByMediator(op) ==
  /\ op.kind = "send"
  /\ op.state = "fulfilled"
  /\ \/ op.subs[1].calls = <<>>
     \/ HandlerFailed(op)
     \/ op.values[1] # HandlerOutcome(op.subs[1].calls[1].handler, op.input[1]).value

\* the status the specification gives for an error code
StatusOf(code) == IF code = "HANDLER_NOT_FOUND" THEN 404 ELSE 500

\* the message the specification gives for an error code and a type-key
MessageOf(code, requestType) ==
  CASE code = "HANDLER_NOT_FOUND" ->
         <<"Handler not found for request type: ", requestType>>
    [] code = "HANDLER_ERROR" ->
         <<"Handler execution failed for request type: ", requestType>>
    [] OTHER ->
         <<"Handler returned invalid result for request type: ", requestType>>

(***************************************************************************)
(* C17 as claimed: every failure Result the Mediator builds carries        *)
(* exactly one error descriptor, whose code is HANDLER_NOT_FOUND,          *)
(* HANDLER_ERROR or INVALID_HANDLER_RESULT, whose status is 404 for the    *)
(* first and 500 for the other two, and whose message is the template of   *)
(* the code with the type-key of the request.                              *)
(***************************************************************************)
C17_ErrorDescriptor ==
  \A o \in SendOps :
    BuiltByMediator(ops[o]) =>
      /\ ops[o].values[1].ok = "false"
      /\ Len(ops[o].values[1].errors) = 1
      /\ LET detail == ops[o].values[1].errors[1]
         IN  /\ detail.code \in
                  {"HANDLER_NOT_FOUND", "HANDLER_ERROR", "INVALID_HANDLER_RESULT"}
             /\ detail.message = MessageOf(detail.code, ops[o].input[1].name)
             /\ "status" \in DOMAIN detail
             /\ detail.status = StatusOf(detail.code)

(***************************************************************************)
(* C18: the Result of a send whose handler failed is the HANDLER_ERROR     *)
(* Result of the type-key of the request and nothing else: it is the same  *)
(* for every handler and every thrown value or rejection reason, so two    *)
(* sends of one type whose handlers failed for different causes resolve to *)
(* equal Results.                                                          *)
(***************************************************************************)
C18_CauseNotExposed ==
  /\ \A o \in SendOps :
       HandlerFailed(ops[o]) =>
         /\ ops[o].state = "fulfilled"
         /\ ops[o].values[1] = err(HANDLER_ERROR(ops[o].input[1].name))
  /\ \A o1, o2 \in SendOps :
       (/\ HandlerFailed(ops[o1])
        /\ HandlerFailed(ops[o2])
        /\ ops[o1].input[1].name = ops[o2].input[1].name)
       => ops[o1].values = ops[o2].values

\* C18 witness: a handler threw its own value when invoked and the send
\* resolved to the HANDLER_ERROR Result of the type-key
C18_Witness ==
  \E o \in SendOps :
    /\ HandlerFailed(ops[o])
    /\ ops[o].subs[1].calls[1].state = "threw"
    /\ Cause(ops[o].subs[1].calls[1].handler) # Cause("hReject")
    /\ ops[o].values[1] = err(HANDLER_ERROR(ops[o].input[1].name))

(***************************************************************************)
(* SpecRegisterBatch: the application registers with registerBatch only    *)
(* and resets with resetRegistry.  The argument of registerBatch has each  *)
(* of its four lists omitted, empty or filled, with at most MaxEntries     *)
(* entries in all; two entries of a list may name the same key, so that    *)
(* the order in which they are applied shows in the Registry.              *)
(***************************************************************************)
BatchFields == {"handlers", "notificationHandlers",
                "requestClasses", "notificationClasses"}
BatchHandlerEntries == [type : ApiRequestTypes, handler : ApiHandlers]
BatchNotificationHandlerEntries ==
  [type : ApiNotificationTypes, handler : {"nResolve", "nReject"}]
BatchRequestClasses ==
  {Class(k, v) : k \in ApiRequestTypes, v \in {"first", "second"}}
BatchNotificationClasses ==
  {Class(k, v) : k \in ApiNotificationTypes, v \in {"first", "second"}}

\* the lengths of the four lists
BatchLengths ==
  {l \in [BatchFields -> 0..MaxEntries] :
     l["handlers"] + l["notificationHandlers"]
       + l["requestClasses"] + l["notificationClasses"] <= MaxEntries}

\* the arguments with all four lists present
BatchLists ==
  UNION {[handlers : [1..l["handlers"] -> BatchHandlerEntries],
          notificationHandlers :
            [1..l["notificationHandlers"] -> BatchNotificationHandlerEntries],
          requestClasses : [1..l["requestClasses"] -> BatchRequestClasses],
          notificationClasses :
            [1..l["notificationClasses"] -> BatchNotificationClasses]] :
         l \in BatchLengths}

\* the arguments of registerBatch: any of the lists may be omitted
BatchRegistrations ==
  {[f \in given |-> lists[f]] : lists \in BatchLists, given \in SUBSET BatchFields}

NextRegisterBatch ==
  \/ \E registrations \in BatchRegistrations : registerBatch(registrations)
  \/ resetRegistry

SpecRegisterBatch == InitModule /\ [][NextRegisterBatch]_vars

\* the entries of a list of the argument, none when the list is omitted
Entries(registrations, field) ==
  IF Given(registrations, field) THEN registrations[field] ELSE <<>>

\* the individual registration calls that the claim compares a batch with
CallsOf(registrations) ==
  [i \in 1..Len(Entries(registrations, "handlers")) |->
     [api |-> "registerHandler", arg |-> registrations.handlers[i]]]
  \o [i \in 1..Len(Entries(registrations, "notificationHandlers")) |->
     [api |-> "registerNotificationHandler",
      arg |-> registrations.notificationHandlers[i]]]
  \o [i \in 1..Len(Entries(registrations, "requestClasses")) |->
     [api |-> "registerRequestClass",
      arg |-> [class |-> registrations.requestClasses[i]]]]
  \o [i \in 1..Len(Entries(registrations, "notificationClasses")) |->
     [api |-> "registerNotificationClass",
      arg |-> [class |-> registrations.notificationClasses[i]]]]

\* one individual registration call on the world w
OneCall(w, call) ==
  CASE call.api = "registerHandler" ->
         helpers_registerHandler(w, call.arg.type, call.arg.handler)
    [] call.api = "registerNotificationHandler" ->
         helpers_registerNotificationHandler(w, call.arg.type, call.arg.handler)
    [] call.api = "registerRequestClass" ->
         helpers_registerRequestClass(w, call.arg.class)
    [] call.api = "registerNotificationClass" ->
         helpers_registerNotificationClass(w, call.arg.class)

\* the calls from call i on, one after the other
RECURSIVE OneByOne(_, _, _)
OneByOne(w, calls, i) ==
  IF i > Len(calls) THEN w ELSE OneByOne(OneCall(w, calls[i]), calls, i + 1)

\* the Registry the helpers register into
HelpersRegistry(w) ==
  RegistryOf(ensureMediator(w), ensureMediator(w).helpers_mediator)

(***************************************************************************)
(* C19: in every reachable state and for every argument, registerBatch     *)
(* leaves the singleton Registry as the individual calls do: registerHandler*)
(* for each entry of handlers, then registerNotificationHandler,           *)
(* registerRequestClass and registerNotificationClass for each entry of    *)
(* their lists, each list in its order; when every list is omitted or      *)
(* empty the Registry is what it was.                                      *)
(***************************************************************************)
C19_BatchIsSequence ==
  \A registrations \in BatchRegistrations :
    LET batch == helpers_registerBatch(World, registrations)
        calls == CallsOf(registrations)
    IN  /\ batch = OneByOne(ensureMediator(World), calls, 1)
        /\ calls = <<>> => HelpersRegistry(batch) = HelpersRegistry(World)

\* C19 witness: registerBatch calls have left a handler that was second under
\* its key, two notification handlers in their order and a class that was
\* second under its name in the singleton Registry
C19_Witness ==
  /\ helpers_mediator # Null
  /\ \E registrations \in BatchRegistrations :
       /\ Len(Entries(registrations, "handlers")) = 2
       /\ registrations.handlers[1].type = registrations.handlers[2].type
       /\ registrations.handlers[1].handler = "hOk"
       /\ registrations.handlers[2].handler = "hOk2"
       /\ Registry_getHandler(HelpersRegistry(World), registrations.handlers[2].type)
            = "hOk2"
  /\ Registry_getNotificationHandlers(HelpersRegistry(World), "N")
       = <<"nReject", "nResolve">>
  /\ HelpersRegistry(World).requestClasses["A"] = Class("A", "second")

(***************************************************************************)
(* C20: getNotificationHandlers(K) is always a sequence of handlers, empty *)
(* for a new Registry and after reset.  registerNotificationHandler(K, h)  *)
(* makes it the sequence it was with h added at the end, also when h is    *)
(* in it already, and leaves the sequence of every other key as it was;    *)
(* nothing else changes it.  So it is exactly the handlers registered      *)
(* under K since the last reset, in registration order.                    *)
(***************************************************************************)
C20_HandlersInOrder ==
  /\ [](\A r \in 1..Len(registries), k \in NotificationTypes :
          /\ Registry_getNotificationHandlers(registries[r], k)
               \in Seq(NotificationHandlerNames)
          /\ Registry_getNotificationHandlers(EmptyRegistry, k) = <<>>
          /\ Registry_getNotificationHandlers(Registry_reset(registries[r]), k) = <<>>
          /\ \A h \in NotificationHandlerNames :
               LET registered ==
                     Registry_registerNotificationHandler(registries[r], k, h)
               IN  /\ Registry_getNotificationHandlers(registered, k)
                        = Append(Registry_getNotificationHandlers(registries[r], k), h)
                   /\ \A other \in NotificationTypes \ {k} :
                        Registry_getNotificationHandlers(registered, other)
                          = Registry_getNotificationHandlers(registries[r], other))
  /\ [][\A r \in 1..Len(registries) :
          \/ \A k \in NotificationTypes :
               Registry_getNotificationHandlers(registries'[r], k)
                 = Registry_getNotificationHandlers(registries[r], k)
          \/ \A k \in NotificationTypes :
               Registry_getNotificationHandlers(registries'[r], k) = <<>>
          \/ \E k \in NotificationTypes, h \in NotificationHandlerNames :
               /\ Registry_getNotificationHandlers(registries'[r], k)
                    = Append(Registry_getNotificationHandlers(registries[r], k), h)
               /\ \A other \in NotificationTypes \ {k} :
                    Registry_getNotificationHandlers(registries'[r], other)
                      = Registry_getNotificationHandlers(registries[r], other)]_vars

\* C20 witness: one handler registered twice under one key is listed twice,
\* and the handler registered under the other key is listed there only
C20_Witness ==
  \E r \in 1..Len(registries) :
    /\ Registry_getNotificationHandlers(registries[r], "N") = <<"nResolve", "nResolve">>
    /\ Registry_getNotificationHandlers(registries[r], "M") = <<"nReject">>

(***************************************************************************)
(* SpecStats: the application registers handlers and classes of both keys  *)
(* on the Registry of a Mediator and resets it; the statistics are read    *)
(* through the Mediator in every state.  A key can be given a second       *)
(* notification handler and a second class of the same name.               *)
(***************************************************************************)
\* Mediator.getStats()
Mediator_getStats(w, mediator) == Registry_getStats(RegistryOf(w, mediator))

StatsClassVariants == {"first", "second"}

NextStats ==
  \/ \E r \in 1..Len(registries), k \in RequestTypes :
       OnRegistry_registerHandler(r, k, "hOk")
  \/ \E r \in 1..Len(registries), k \in NotificationTypes :
       OnRegistry_registerNotificationHandler(r, k, "nResolve")
  \/ \E r \in 1..Len(registries), k \in RequestTypes, v \in StatsClassVariants :
       OnRegistry_registerRequestClass(r, Class(k, v))
  \/ \E r \in 1..Len(registries), k \in NotificationTypes :
       OnRegistry_registerNotificationClass(r, Class(k, "first"))
  \/ \E r \in 1..Len(registries) : OnRegistry_reset(r)

SpecStats == InitPair /\ [][NextStats]_vars

(***************************************************************************)
(* C21: in every reachable state getStats gives, for each of the four      *)
(* mappings, the number of type-keys present in it: keys with a request    *)
(* handler, keys with at least one notification handler, names of          *)
(* registered request classes and of registered notification classes.  A   *)
(* registration adds one to the count of its mapping exactly when its key  *)
(* was not present and leaves the other three counts alone; after reset    *)
(* and for a new Registry all four are zero.                               *)
(***************************************************************************)
C21_StatsCountKeys ==
  \A m \in 1..Len(mediators) :
    LET registry == RegistryOf(World, m)
        stats == Mediator_getStats(World, m)
        Plus(present) == IF present THEN 0 ELSE 1
        zero == [requestHandlers |-> 0, notificationHandlers |-> 0,
                 requestClasses |-> 0, notificationClasses |-> 0]
    IN  /\ stats.requestHandlers =
             Cardinality({k \in RequestTypes :
                            Registry_getHandler(registry, k) # NoHandler})
        /\ stats.notificationHandlers =
             Cardinality({k \in NotificationTypes :
                            Len(Registry_getNotificationHandlers(registry, k)) >= 1})
        /\ stats.requestClasses =
             Cardinality({registry.requestClasses[k].name : k \in RequestTypes}
                           \ {NoClass.name})
        /\ stats.notificationClasses =
             Cardinality({registry.notificationClasses[k].name :
                            k \in NotificationTypes} \ {NoClass.name})
        /\ Registry_getStats(EmptyRegistry) = zero
        /\ Registry_getStats(Registry_reset(registry)) = zero
        /\ \A k \in RequestTypes :
             /\ Registry_getStats(Registry_registerHandler(registry, k, "hOk"))
                  = [stats EXCEPT !.requestHandlers =
                       @ + Plus(Registry_getHandler(registry, k) # NoHandler)]
             /\ \A v \in StatsClassVariants :
                  Registry_getStats(Registry_registerRequestClass(registry, Class(k, v)))
                    = [stats EXCEPT !.requestClasses =
                         @ + Plus(registry.requestClasses[k] # NoClass)]
        /\ \A k \in NotificationTypes :
             /\ Registry_getStats(
                  Registry_registerNotificationHandler(registry, k, "nResolve"))
                  = [stats EXCEPT !.notificationHandlers =
                       @ + Plus(Registry_getNotificationHandlers(registry, k) # <<>>)]
             /\ Registry_getStats(
                  Registry_registerNotificationClass(registry, Class(k, "first")))
                  = [stats EXCEPT !.notificationClasses =
                       @ + Plus(registry.notificationClasses[k] # NoClass)]

\* C21 witness: two handlers under one notification key and two classes of
\* one name were registered, and each counts once
C21_Witness ==
  \E m \in 1..Len(mediators) :
    /\ Len(Registry_getNotificationHandlers(RegistryOf(World, m), "N")) = 2
    /\ Registry_getNotificationHandlers(RegistryOf(World, m), "M") = <<>>
    /\ RegistryOf(World, m).requestClasses["A"] = Class("A", "second")
    /\ Registry_getHandler(RegistryOf(World, m), "A") # NoHandler
    /\ Registry_getHandler(RegistryOf(World, m), "B") # NoHandler
    /\ Mediator_getStats(World, m) =
         [requestHandlers |-> 2, notificationHandlers |-> 1,
          requestClasses |-> 1, notificationClasses |-> 0]

(***************************************************************************)
(* SpecCreate: the application registers request handlers and classes on   *)
(* the Registry of a Mediator, resets it, and sends what createRequest     *)
(* returned for a key and a data value.                                    *)
(***************************************************************************)
DataValues == {"d1", "d2"}
CreateClassVariants == {"first", "second"}

\* helpers.ts createRequestFromData: the value returned in the world w
createRequestFromData(w, requestType, data) ==
  Registry_createRequest(
    RegistryOf(ensureMediator(w), ensureMediator(w).helpers_mediator),
    requestType, data)

\* helpers.ts createNotificationFromData: the value returned in the world w
createNotificationFromData(w, notificationType, data) ==
  Registry_createNotification(
    RegistryOf(ensureMediator(w), ensureMediator(w).helpers_mediator),
    notificationType, data)

NextCreate ==
  \/ \E r \in 1..Len(registries), k \in RequestTypes :
       ops = <<>> /\ OnRegistry_registerHandler(r, k, "hOk")
  \/ \E r \in 1..Len(registries), k \in RequestTypes, v \in CreateClassVariants :
       ops = <<>> /\ OnRegistry_registerRequestClass(r, Class(k, v))
  \/ \E r \in 1..Len(registries), k \in NotificationTypes :
       ops = <<>> /\ OnRegistry_registerNotificationClass(r, Class(k, "first"))
  \/ \E r \in 1..Len(registries) : ops = <<>> /\ OnRegistry_reset(r)
  \/ \E m \in 1..Len(mediators), k \in RequestTypes, data \in DataValues :
       /\ ops = <<>>
       /\ OnMediator_send(m, Registry_createRequest(RegistryOf(World, m), k, data))
  \/ \E call \in PendingCalls : HandlerSettles(call[1], call[2], call[3])

SpecCreate == InitPair /\ [][NextCreate]_vars

(***************************************************************************)
(* C22: createRequest(K, data) gives an instance of the constructor last   *)
(* registered under the name K, built from data alone, and the not-found   *)
(* value when no constructor of that name was registered since the last    *)
(* reset; createNotification likewise.  The request handlers have no part  *)
(* in the outcome, and registering a constructor changes no handler        *)
(* lookup: a send of the created instance finds a handler only if one was  *)
(* registered under K.                                                     *)
(***************************************************************************)
C22_CreateFromClass ==
  /\ \A r \in 1..Len(registries), data \in DataValues :
       LET registry == registries[r]
           withoutHandlers ==
             [registry EXCEPT !.requestHandlers = EmptyRegistry.requestHandlers]
       IN  /\ \A k \in RequestTypes :
                /\ Registry_createRequest(EmptyRegistry, k, data) = NullRequest
                /\ Registry_createRequest(Registry_reset(registry), k, data) = NullRequest
                /\ Registry_createRequest(withoutHandlers, k, data)
                     = Registry_createRequest(registry, k, data)
                /\ Registry_createRequest(
                     Registry_registerHandler(registry, k, "hOk"), k, data)
                     = Registry_createRequest(registry, k, data)
                /\ \A v \in CreateClassVariants :
                     LET registered ==
                           Registry_registerRequestClass(registry, Class(k, v))
                     IN  /\ Registry_createRequest(registered, k, data)
                              = New(Class(k, v), data)
                         /\ \A other \in RequestTypes :
                              /\ Registry_getHandler(registered, other)
                                   = Registry_getHandler(registry, other)
                              /\ other # k =>
                                   Registry_createRequest(registered, other, data)
                                     = Registry_createRequest(registry, other, data)
                         /\ sendStart(registered, New(Class(k, v), data))
                              = sendStart(registry, New(Class(k, v), data))
           /\ \A k \in NotificationTypes :
                /\ Registry_createNotification(EmptyRegistry, k, data) = NullRequest
                /\ Registry_createNotification(Registry_reset(registry), k, data)
                     = NullRequest
                /\ Registry_createNotification(
                     Registry_registerNotificationClass(registry, Class(k, "first")),
                     k, data) = New(Class(k, "first"), data)
                /\ registry.notificationClasses[k] = NoClass =>
                     Registry_createNotification(registry, k, data) = NullRequest
  /\ \A k \in RequestTypes, data \in DataValues :
       helpers_mediator = Null => createRequestFromData(World, k, data) = NullRequest
  /\ \A k \in NotificationTypes, data \in DataValues :
       helpers_mediator = Null =>
         createNotificationFromData(World, k, data) = NullRequest
  /\ \A o \in SendOps :
       LET request == ops[o].input[1]
       IN  request.kind = "instance" =>
             /\ request.class \in {Class(request.name, v) : v \in CreateClassVariants}
             /\ request.args \in {<<data>> : data \in DataValues}
             /\ ops[o].subs[1].handlers = <<>> =>
                  ops[o].values[1] = err(HANDLER_NOT_FOUND(request.name))

\* C22 witness: the instance created for a key whose second constructor is
\* registered, and which has no handler, was sent and no handler was found
C22_Witness ==
  \E o \in SendOps :
    /\ ops[o].input[1] = New(Class("A", "second"), "d2")
    /\ ops[o].values[1] = err(HANDLER_NOT_FOUND("A"))

(***************************************************************************)
(* SpecCqrs: the application registers request handlers through the        *)
(* convenience API, then makes CqrsCalls calls, each with any of send,     *)
(* sendCommand, sendQuery and the three batch methods.  No registration    *)
(* follows a call, so that every call meets the same Registry.             *)
(***************************************************************************)
CqrsHandlers == {"hOk", "hReject", "hThrow"}
CqrsBatches == ListsUpTo({Instance("A")}, 2)

OnMediator_sendCommandBatch(m, commands) ==
  /\ ops' = Append(ops, Mediator_sendCommandBatch(World, m, commands))
  /\ UNCHANGED <<registries, mediators, _instance, _registry,
                 helpers_mediator, middleware_mediator, buildPromise>>

OnMediator_sendQueryBatch(m, queries) ==
  /\ ops' = Append(ops, Mediator_sendQueryBatch(World, m, queries))
  /\ UNCHANGED <<registries, mediators, _instance, _registry,
                 helpers_mediator, middleware_mediator, buildPromise>>

NextCqrs ==
  \/ \E h \in CqrsHandlers : ops = <<>> /\ registerHandler("A", h)
  \/ ops = <<>> /\ registerHandler("B", "hOk2")
  \/ \E request \in RequestInstances :
       Len(ops) < CqrsCalls /\ sendRequest(request)
  \/ \E command \in RequestInstances :
       Len(ops) < CqrsCalls /\ sendCommand(command)
  \/ \E query \in RequestInstances :
       Len(ops) < CqrsCalls /\ sendQuery(query)
  \/ \E m \in 1..Len(mediators), requests \in CqrsBatches :
       Len(ops) < CqrsCalls /\ OnMediator_sendBatch(m, requests)
  \/ \E m \in 1..Len(mediators), commands \in CqrsBatches :
       Len(ops) < CqrsCalls /\ OnMediator_sendCommandBatch(m, commands)
  \/ \E m \in 1..Len(mediators), queries \in CqrsBatches :
       Len(ops) < CqrsCalls /\ OnMediator_sendQueryBatch(m, queries)
  \/ \E call \in PendingCalls : HandlerSettles(call[1], call[2], call[3])

SpecCqrs == InitModule /\ [][NextCqrs]_vars

\* the calls for one request, and the calls for a list of requests
SingleKinds == {"send", "sendCommand", "sendQuery"}
BatchKinds == {"sendBatch", "sendCommandBatch", "sendQueryBatch"}

(***************************************************************************)
(* C23: whichever of send, sendCommand and sendQuery (or of the three      *)
(* batch methods) is used, a request instance is served by the handler     *)
(* registered under its class name in the one request-handler mapping, and *)
(* two calls of different variants with the same input on the same         *)
(* Registry invoke the same handlers and, once settled, hold the same      *)
(* Results.                                                                *)
(***************************************************************************)
C23_VariantsEquivalent ==
  /\ \A o \in 1..Len(ops) : \A i \in 1..Len(ops[o].subs) :
       LET handler == Registry_getHandler(RegistryOf(World, ops[o].mediator),
                                          ops[o].input[i].name)
       IN  Invoked(ops[o].subs[i]) =
             IF handler = NoHandler THEN <<>> ELSE <<handler>>
  /\ \A o1, o2 \in 1..Len(ops) :
       (/\ \/ {ops[o1].kind, ops[o2].kind} \subseteq SingleKinds
           \/ {ops[o1].kind, ops[o2].kind} \subseteq BatchKinds
        /\ ops[o1].mediator = ops[o2].mediator
        /\ ops[o1].input = ops[o2].input)
       => /\ \A i \in 1..Len(ops[o1].subs) :
               Invoked(ops[o1].subs[i]) = Invoked(ops[o2].subs[i])
          /\ (ops[o1].state # "pending" /\ ops[o2].state # "pending") =>
               /\ ops[o1].state = ops[o2].state
               /\ ops[o1].values = ops[o2].values

\* C23 witness: a send and a sendCommand of the same instance were both
\* served by the one handler registered under its name, which rejected
C23_Witness ==
  \E o1, o2 \in 1..Len(ops) :
    /\ ops[o1].kind = "send"
    /\ ops[o2].kind = "sendCommand"
    /\ ops[o1].input = ops[o2].input
    /\ Invoked(ops[o2].subs[1]) = <<"hReject">>
    /\ ops[o1].state = "fulfilled"
    /\ ops[o2].state = "fulfilled"
    /\ ops[o2].values = ops[o1].values

\* a handler invoked by the call has returned a promise that has not settled
AwaitsHandler(op) ==
  \E s \in 1..Len(op.subs) : \E c \in 1..Len(op.subs[s].calls) :
    op.subs[s].calls[c].state = "pending"

(***************************************************************************)
(* C24 as claimed: as long as a handler invoked by a send, a publish or a  *)
(* batch has not settled, the promise the call returned has not settled    *)
(* either, so a handler that never settles leaves the call pending for     *)
(* ever.                                                                   *)
(***************************************************************************)
C24_HungHandlerHangsCall ==
  \A o \in 1..Len(ops) : AwaitsHandler(ops[o]) => ops[o].state = "pending"

(***************************************************************************)
(* isResult (result-utils).  A value handed to the guard is described by   *)
(* what the guard reads of it: its typeof (null apart), the typeof of its  *)
(* properties isOk, isError and hasWarning, whether it has an own property *)
(* data, and its property errors with, for an array, what each element is. *)
(***************************************************************************)
\* an element of an errors array
ErrorElement(type, code, message) == [type |-> type, code |-> code, message |-> message]

\* a property errors: not an array, or an array of elements
NoErrors == [isArray |-> FALSE, elements |-> <<>>]
ErrorsArray(elements) == [isArray |-> TRUE, elements |-> elements]

\* a value that is not an object has none of the properties
Primitive(type) ==
  [type |-> type, isOk |-> "undefined", isError |-> "undefined",
   hasWarning |-> "undefined", ownData |-> FALSE, errors |-> NoErrors]

\* the object literal {}
EmptyObject == Primitive("object")

\* { isOk: () => true, isError: () => false, hasWarning: () => false, errors: [] }
FakeResult ==
  [type |-> "object", isOk |-> "function", isError |-> "function",
   hasWarning |-> "function", ownData |-> FALSE, errors |-> ErrorsArray(<<>>)]

\* what ok(data) of ts-micro-result returns, as the guard sees it
OkResult ==
  [type |-> "object", isOk |-> "function", isError |-> "function",
   hasWarning |-> "function", ownData |-> TRUE, errors |-> ErrorsArray(<<>>)]

isErrorDetail(value) ==
  IF value.type # "object" THEN FALSE
  ELSE value.code = "string" /\ value.message = "string"

\* an isResult that does not look for the own property data
isResultWithoutData(value) ==
  IF value.type # "object" THEN FALSE
  ELSE LET hasLifecycleGuards ==
             /\ value.isOk = "function"
             /\ value.isError = "function"
             /\ value.hasWarning = "function"
           hasRequiredFields ==
             /\ value.errors.isArray
             /\ \A i \in 1..Len(value.errors.elements) :
                  isErrorDetail(value.errors.elements[i])
       IN  hasLifecycleGuards /\ hasRequiredFields

isResult(value) ==
  IF value.type # "object" THEN FALSE
  ELSE LET hasLifecycleGuards ==
             /\ value.isOk = "function"
             /\ value.isError = "function"
             /\ value.hasWarning = "function"
           hasRequiredFields ==
             /\ value.ownData
             /\ value.errors.isArray
             /\ \A i \in 1..Len(value.errors.elements) :
                  isErrorDetail(value.errors.elements[i])
       IN  hasLifecycleGuards /\ hasRequiredFields

(***************************************************************************)
(* SpecIsResult: the application hands one value to isResult.              *)
(***************************************************************************)
PropertyTypes == {"function", "undefined", "boolean"}
ErrorElements ==
  {ErrorElement(type, code, message) :
     type \in {"object"}, code \in {"string", "number", "undefined"},
     message \in {"string", "undefined"}}
  \cup {ErrorElement(type, "undefined", "undefined") : type \in {"null", "string"}}
ErrorsValues == {NoErrors} \cup {ErrorsArray(l) : l \in ListsUpTo(ErrorElements, MaxErrors)}
Objects ==
  [type : {"object"}, isOk : PropertyTypes, isError : PropertyTypes,
   hasWarning : PropertyTypes, ownData : BOOLEAN, errors : ErrorsValues]
IsResultInputs ==
  Objects \cup {Primitive(t) : t \in {"null", "undefined", "string", "number", "function"}}

\* the record of a call of isResult
GuardCall(value) ==
  [kind |-> "isResult", mediator |-> Null, input |-> <<value>>, subs |-> <<>>,
   values |-> <<isResult(value)>>, state |-> "returned"]

OnIsResult(value) ==
  /\ ops = <<>>
  /\ ops' = <<GuardCall(value)>>
  /\ UNCHANGED <<registries, mediators, _instance, _registry,
                 helpers_mediator, middleware_mediator, buildPromise>>

NextIsResult == \E value \in IsResultInputs : OnIsResult(value)

SpecIsResult == InitModule /\ [][NextIsResult]_vars

\* the isResult calls made so far
IsResultOps == {o \in 1..Len(ops) : ops[o].kind = "isResult"}

(***************************************************************************)
(* C25: isResult returns true only for an object with function-valued      *)
(* isOk, isError and hasWarning, an own property data and an errors array  *)
(* whose every element is an object with string code and string message,   *)
(* and for every such object; it returns true for what ok(x) produces and  *)
(* false for null, for values that are not objects, for {} and for the     *)
(* object with the three functions and errors: [] but no own data.         *)
(***************************************************************************)
C25_IsResultShape ==
  \A o \in IsResultOps :
    LET value == ops[o].input[1]
        result == ops[o].values[1]
    IN  /\ result <=>
             /\ value.type = "object"
             /\ {value.isOk, value.isError, value.hasWarning} = {"function"}
             /\ value.ownData
             /\ value.errors.isArray
             /\ \A i \in 1..Len(value.errors.elements) :
                  /\ value.errors.elements[i].type = "object"
                  /\ value.errors.elements[i].code = "string"
                  /\ value.errors.elements[i].message = "string"
        /\ value = OkResult => result
        /\ value.type # "object" => ~result
        /\ value = EmptyObject => ~result
        /\ value = FakeResult => ~result

\* C25 witness: the object with the three functions and errors: [] but no
\* own data was handed to isResult, which returned false
C25_Witness ==
  \E o \in IsResultOps : ops[o].input[1] = FakeResult /\ ops[o].values[1] = FALSE

(***************************************************************************)
(* SpecStale: the application uses the convenience API and calls           *)
(* MediatorFactory.create() and MediatorFactory.reset() itself; it never   *)
(* calls resetRegistry.                                                    *)
(***************************************************************************)
NextStale ==
  \/ OnFactory_create
  \/ OnFactory_reset
  \/ \E k \in ApiRequestTypes, h \in ApiHandlers : registerHandler(k, h)
  \/ \E k \in ApiNotificationTypes, h \in ApiNotificationHandlers :
       registerNotificationHandler(k, h)
  \/ getRegistryStats
  \/ getMediatorStats
  \/ \E k \in ApiRequestTypes : Len(ops) < ApiCalls /\ sendRequest(Instance(k))
  \/ \E k \in ApiRequestTypes :
       Len(ops) < ApiCalls /\ sendBatch(<<Instance(k)>>)
  \/ \E k \in ApiNotificationTypes :
       Len(ops) < ApiCalls /\ publishNotification(Instance(k))
  \/ \E call \in PendingCalls : HandlerSettles(call[1], call[2], call[3])

SpecStale == InitModule /\ [][NextStale]_vars

(***************************************************************************)
(* C26 as claimed: when MediatorFactory.reset() is called directly, no     *)
(* convenience call registers into or dispatches through the pair of       *)
(* before the reset: every step that changes the content of a Registry     *)
(* without being the reset changes the Registry of the current singleton,  *)
(* every dispatch goes through the current singleton, and after such a     *)
(* step the reference cached by the module that served it is the current   *)
(* singleton.                                                              *)
(***************************************************************************)
C26_NoStalePair ==
  [][/\ (/\ Len(registries') = Len(registries)
         /\ registries' # registries
         /\ ~(_instance # Null /\ _instance' = Null))
        => /\ _registry' # Null
           /\ \A r \in 1..Len(registries) :
                registries'[r] # registries[r] => r = _registry'
           /\ helpers_mediator' = _instance'
     /\ Len(ops') = Len(ops) + 1
        => /\ _instance' # Null
           /\ ops'[Len(ops')].mediator = _instance'
           /\ ops'[Len(ops')].kind = "sendBatch" => helpers_mediator' = _instance'
           /\ ops'[Len(ops')].kind \in {"send", "publish"}
                => middleware_mediator' = _instance']_vars

(***************************************************************************)
(* SpecFrame: on a Registry holding handlers and classes the application   *)
(* makes one call of a dispatch method of the Mediator or of a lookup      *)
(* method of the Registry; the value a lookup returns is recorded.         *)
(* Handlers do not call the Registry.                                      *)
(***************************************************************************)
FrameHandlers == {"hOk", "hThrow", "hReject", "hUndefined"}
FrameNotificationHandlers == {"nResolve", "nReject"}

\* the record of a call of a lookup method and of the value it returned
ReadOp(kind, mediator, input, value) ==
  [kind |-> kind, mediator |-> mediator, input |-> <<input>>, subs |-> <<>>,
   values |-> <<value>>, state |-> "returned"]

OnRead(op) ==
  /\ ops' = Append(ops, op)
  /\ UNCHANGED <<registries, mediators, _instance, _registry,
                 helpers_mediator, middleware_mediator, buildPromise>>

OnMediator_getStats(m) ==
  OnRead(ReadOp("getStats", m, "", Mediator_getStats(World, m)))

OnRegistry_getHandler(m, requestType) ==
  OnRead(ReadOp("getHandler", m, requestType,
                Registry_getHandler(RegistryOf(World, m), requestType)))

OnRegistry_getNotificationHandlers(m, notificationType) ==
  OnRead(ReadOp("getNotificationHandlers", m, notificationType,
                Registry_getNotificationHandlers(RegistryOf(World, m),
                                                 notificationType)))

OnRegistry_createRequest(m, requestType, data) ==
  OnRead(ReadOp("createRequest", m, requestType,
                Registry_createRequest(RegistryOf(World, m), requestType, data)))

OnRegistry_createNotification(m, notificationType, data) ==
  OnRead(ReadOp("createNotification", m, notificationType,
                Registry_createNotification(RegistryOf(World, m),
                                            notificationType, data)))

NextFrame ==
  \/ \E r \in 1..Len(registries), h \in FrameHandlers :
       ops = <<>> /\ OnRegistry_registerHandler(r, "A", h)
  \/ \E r \in 1..Len(registries), h \in FrameNotificationHandlers :
       ops = <<>> /\ OnRegistry_registerNotificationHandler(r, "N", h)
  \/ \E r \in 1..Len(registries) :
       ops = <<>> /\ OnRegistry_registerRequestClass(r, Class("A", "first"))
  \/ \E r \in 1..Len(registries) :
       ops = <<>> /\ OnRegistry_registerNotificationClass(r, Class("N", "first"))
  \/ \E m \in 1..Len(mediators), request \in RequestInstances :
       ops = <<>> /\ OnMediator_send(m, request)
  \/ \E m \in 1..Len(mediators), notification \in NotificationInstances :
       ops = <<>> /\ OnMediator_publish(m, notification)
  \/ \E m \in 1..Len(mediators), requests \in ListsUpTo(RequestInstances, 2) :
       ops = <<>> /\ OnMediator_sendBatch(m, requests)
  \/ \E m \in 1..Len(mediators),
        notifications \in ListsUpTo(NotificationInstances, 2) :
       ops = <<>> /\ OnMediator_publishBatch(m, notifications)
  \/ \E m \in 1..Len(mediators) : ops = <<>> /\ OnMediator_getStats(m)
  \/ \E m \in 1..Len(mediators), k \in RequestTypes :
       ops = <<>> /\ OnRegistry_getHandler(m, k)
  \/ \E m \in 1..Len(mediators), k \in NotificationTypes :
       ops = <<>> /\ OnRegistry_getNotificationHandlers(m, k)
  \/ \E m \in 1..Len(mediators), k \in RequestTypes, data \in DataValues :
       ops = <<>> /\ OnRegistry_createRequest(m, k, data)
  \/ \E m \in 1..Len(mediators), k \in NotificationTypes, data \in DataValues :
       ops = <<>> /\ OnRegistry_createNotification(m, k, data)
  \/ \E call \in PendingCalls : HandlerSettles(call[1], call[2], call[3])

SpecFrame == InitPair /\ [][NextFrame]_vars

(***************************************************************************)
(* C27: a call of send, publish, sendBatch, publishBatch, getStats,        *)
(* getHandler, getNotificationHandlers, createRequest or createNotification,*)
(* and the continuation of a dispatch when a handler settles, leave every  *)
(* Registry as it was: the four mappings, their keys, handlers, and the    *)
(* content and order of the lists, whatever the outcome of the call.       *)
(***************************************************************************)
C27_DispatchReadsOnly ==
  [][ops' # ops =>
       /\ registries' = registries
       /\ \A r \in 1..Len(registries) :
            /\ Registry_getStats(registries'[r]) = Registry_getStats(registries[r])
            /\ \A k \in NotificationTypes :
                 Registry_getNotificationHandlers(registries'[r], k)
                   = Registry_getNotificationHandlers(registries[r], k)]_vars

\* C27 witness: a send that ended in HANDLER_ERROR, with its handler, two
\* notification handlers in their order and a class still in the Registry
C27_Witness ==
  \E o \in SendOps :
    /\ FailsWith(ops[o].values[1], "HANDLER_ERROR")
    /\ Registry_getHandler(RegistryOf(World, ops[o].mediator), "A") = "hThrow"
    /\ Registry_getNotificationHandlers(RegistryOf(World, ops[o].mediator), "N")
         = <<"nReject", "nResolve">>
    /\ RegistryOf(World, ops[o].mediator).requestClasses["A"] = Class("A", "first")

\* the mappings of a Registry
Mappings == {"requestHandlers", "notificationHandlers",
             "requestClasses", "notificationClasses"}

\* `after` differs from `before` at most in the entry of key in mapping
OnlyEntryChanged(before, after, mapping, key) ==
  /\ \A other \in Mappings \ {mapping} : after[other] = before[other]
  /\ DOMAIN after[mapping] = DOMAIN before[mapping]
  /\ \A k \in DOMAIN before[mapping] \ {key} : after[mapping][k] = before[mapping][k]

(***************************************************************************)
(* C28: each registration method changes its own mapping only, and in it   *)
(* the entry of the given key only: registerHandler(K, h) leaves the       *)
(* notification-handler lists, both class mappings and the handlers of the *)
(* other keys as they were, and so do registerNotificationHandler,         *)
(* registerRequestClass and registerNotificationClass for the other three  *)
(* mappings and the other keys.  Every step of the program that is not a   *)
(* reset changes at most one entry of one mapping.                         *)
(***************************************************************************)
C28_RegistrationFrame ==
  /\ [](\A r \in 1..Len(registries) :
          /\ \A k \in RequestTypes :
               /\ OnlyEntryChanged(registries[r],
                    Registry_registerHandler(registries[r], k, "hOk"),
                    "requestHandlers", k)
               /\ \A v \in StatsClassVariants :
                    OnlyEntryChanged(registries[r],
                      Registry_registerRequestClass(registries[r], Class(k, v)),
                      "requestClasses", k)
          /\ \A k \in NotificationTypes :
               /\ OnlyEntryChanged(registries[r],
                    Registry_registerNotificationHandler(registries[r], k, "nResolve"),
                    "notificationHandlers", k)
               /\ OnlyEntryChanged(registries[r],
                    Registry_registerNotificationClass(registries[r], Class(k, "first")),
                    "notificationClasses", k))
  /\ [][\A r \in 1..Len(registries) :
          \/ registries'[r] = EmptyRegistry
          \/ \E mapping \in Mappings :
               \E k \in DOMAIN registries[r][mapping] :
                 OnlyEntryChanged(registries[r], registries'[r], mapping, k)]_vars

\* C28 witness: all four mappings are filled, the two keys of the request
\* handlers and of the request classes with what was registered under each
C28_Witness ==
  \E r \in 1..Len(registries) :
    /\ registries[r].requestHandlers = [k \in RequestTypes |-> "hOk"]
    /\ registries[r].requestClasses["A"] = Class("A", "second")
    /\ registries[r].requestClasses["B"] = Class("B", "first")
    /\ registries[r].notificationHandlers["N"] = <<"nResolve">>
    /\ registries[r].notificationHandlers["M"] = <<>>
    /\ registries[r].notificationClasses["M"] = Class("M", "first")
    /\ registries[r].notificationClasses["N"] = NoClass

(***************************************************************************)
(* C29: in every reachable state of the factory getRegistry() is non-null  *)
(* exactly when the singleton Mediator exists, and it is then the Registry *)
(* that Mediator is bound to; it is null before the first create() and     *)
(* after every reset(), and the Registry of the Mediator that create()     *)
(* returns after every create().                                           *)
(***************************************************************************)
C29_GetRegistryTracksSingleton ==
  /\ (MediatorFactory_getRegistry(World) # Null) <=> (_instance # Null)
  /\ _instance # Null => MediatorFactory_getRegistry(World) = mediators[_instance]
  /\ MediatorFactory_getRegistry(MediatorFactory_reset(World)) = Null
  /\ LET created == MediatorFactory_create(World)
     IN  /\ created._instance # Null
         /\ MediatorFactory_getRegistry(created) = created.mediators[created._instance]
         /\ MediatorFactory_getRegistry(MediatorFactory_reset(created)) = Null

\* C29 witness: the singleton exists beside another Mediator on another
\* Registry, and getRegistry() is the Registry of the singleton
C29_Witness ==
  /\ _instance # Null
  /\ mediators[_instance] > 1
  /\ MediatorFactory_getRegistry(World) = mediators[_instance]
  /\ \E m \in 1..Len(mediators) : m # _instance /\ mediators[m] # mediators[_instance]

(***************************************************************************)
(* C30: a publish is fulfilled only when none of the handlers it invoked   *)
(* is still pending; while one of them is pending, the settling of another *)
(* (resolved or rejected) leaves publish pending; a publish that awaits    *)
(* has invoked every handler of the list before, in the call itself, and   *)
(* no handler is invoked later.                                            *)
(***************************************************************************)
C30_PublishAwaitsAll ==
  /\ [](\A o \in PublishOps :
          ops[o].state = "fulfilled" =>
            \A c \in 1..Len(ops[o].subs[1].calls) :
              ops[o].subs[1].calls[c].state # "pending")
  /\ [][/\ \A o \in PublishOps :
             /\ Len(ops'[o].subs[1].calls) = Len(ops[o].subs[1].calls)
             /\ (/\ ops[o].state = "pending"
                 /\ \E c \in 1..Len(ops'[o].subs[1].calls) :
                      ops'[o].subs[1].calls[c].state = "pending")
                => ops'[o].state = "pending"
        /\ (IsCall("publish") /\ ops'[Len(ops')].state = "pending")
             => /\ Invoked(ops'[Len(ops')].subs[1]) =
                     Registry_getNotificationHandlers(
                       RegistryOf(World, ops'[Len(ops')].mediator),
                       ops'[Len(ops')].input[1].name)
                /\ \A c \in 1..Len(ops'[Len(ops')].subs[1].calls) :
                     ops'[Len(ops')].subs[1].calls[c].state = "pending"]_vars

\* C30 witness: of two handlers invoked by a publish one has rejected, the
\* other has not settled, and the publish is pending
C30_Witness ==
  \E o \in PublishOps :
    /\ Len(ops[o].subs[1].calls) = 2
    /\ ops[o].subs[1].calls[1].state = "rejected"
    /\ ops[o].subs[1].calls[2].state = "pending"
    /\ ops[o].state = "pending"

(***************************************************************************)
(* C31: sendBatch dispatches every request of the batch before it awaits   *)
(***************************************************************************)
\* C31: sendBatch is concurrent.  In the very step of the call, every request
\* of the batch whose type-key has a handler in the Registry has had that
\* handler looked up and invoked, whatever the other requests of the batch are
\* and before any handler promise has settled; and when the handler promise of
\* one request settles, the send of that request is fulfilled in that step,
\* whether or not the handlers of the other requests are still pending.
C31_BatchConcurrent ==
  /\ [][IsCall("sendBatch") =>
         LET op == ops'[Len(ops')]
             registry == registries[mediators[op.mediator]]
         IN  /\ Len(op.subs) = Len(op.input)
             /\ \A i \in 1..Len(op.input) :
                   LET request == op.input[i]
                       handler == Registry_getHandler(registry, request.name)
                   IN  (request.kind = "instance" /\ handler # NoHandler) =>
                         /\ op.subs[i].handlers = <<handler>>
                         /\ Len(op.subs[i].calls) = 1
                         /\ op.subs[i].calls[1].handler = handler
                         /\ op.subs[i].calls[1].state \in {"pending", "threw"}]_vars
  /\ [][\A o \in 1..Len(ops) :
          (o <= Len(ops') /\ ops[o].kind = "sendBatch") =>
            \A j \in 1..Len(ops[o].subs) :
              (/\ Len(ops[o].subs[j].calls) = 1
               /\ ops[o].subs[j].calls[1].state = "pending"
               /\ ops'[o].subs[j].calls[1].state # "pending") =>
                 /\ ops'[o].subs[j].state = "fulfilled"
                 /\ ops'[o].values[j] = ops'[o].subs[j].value
                 /\ \A i \in 1..Len(ops[o].subs) :
                       i # j => ops'[o].subs[i] = ops[o].subs[i]]_vars

\* a batch in which the handler of a later request has completed while the
\* handler of an earlier request, invoked in the same call, is still pending
C31_Witness ==
  \E o \in 1..Len(ops) :
    /\ ops[o].kind = "sendBatch"
    /\ \E i \in 1..Len(ops[o].subs) :
         \E j \in 1..Len(ops[o].subs) :
           /\ i < j
           /\ Len(ops[o].subs[i].calls) = 1
           /\ ops[o].subs[i].calls[1].state = "pending"
           /\ ops[o].subs[i].state = "pending"
           /\ Len(ops[o].subs[j].calls) = 1
           /\ ops[o].subs[j].calls[1].state = "resolved"
           /\ ops[o].subs[j].state = "fulfilled"
           /\ ops[o].state = "pending"

(***************************************************************************)
(* SpecSelect: handlers and request classes are registered on the Registry *)
(* of a Mediator, then one instance of some class is sent or published.    *)
(* The instances are built by `new` from classes of which two can have the *)
(* same name, with one of two constructor arguments.                       *)
(***************************************************************************)
SelectClassVariants == {"first", "second"}
SelectHandlers == {"hOk", "hOk2"}
SelectNotificationHandlers == {"nResolve", "nReject"}

SelectRequests ==
  {New(Class(k, v), d) : k \in RequestTypes, v \in SelectClassVariants, d \in DataValues}
SelectNotifications ==
  {New(Class(k, v), d) :
     k \in NotificationTypes, v \in SelectClassVariants, d \in DataValues}

NextSelect ==
  \/ \E r \in 1..Len(registries), k \in RequestTypes, h \in SelectHandlers :
       ops = <<>> /\ OnRegistry_registerHandler(r, k, h)
  \/ \E r \in 1..Len(registries), k \in NotificationTypes,
        h \in SelectNotificationHandlers :
       /\ ops = <<>>
       /\ SubscriberCount(registries[r], NotificationTypes) < MaxSubscribers
       /\ OnRegistry_registerNotificationHandler(r, k, h)
  \/ \E r \in 1..Len(registries), k \in RequestTypes, v \in SelectClassVariants :
       ops = <<>> /\ OnRegistry_registerRequestClass(r, Class(k, v))
  \/ \E m \in 1..Len(mediators), request \in SelectRequests :
       ops = <<>> /\ OnMediator_send(m, request)
  \/ \E m \in 1..Len(mediators), notification \in SelectNotifications :
       ops = <<>> /\ OnMediator_publish(m, notification)
  \/ \E call \in PendingCalls : HandlerSettles(call[1], call[2], call[3])

SpecSelect == InitPair /\ [][NextSelect]_vars

\* C32: handler selection depends only on the name of the class of the
\* instance.  When an instance is sent (published), the handler(s) looked up
\* and invoked are those the Registry holds under the name of its class, and
\* sending (publishing) in the same state any other instance whose class has
\* that name, a distinct class or other field values included, selects and
\* invokes the same handler(s); and a handler can be registered under a
\* type-key whatever class, if any, the Registry holds for that key.
C32_SelectionByClassName ==
  /\ [][IsCall("send") =>
         LET op == ops'[Len(ops')]
             request == op.input[1]
             handler == Registry_getHandler(registries[mediators[op.mediator]],
                                            request.class.name)
         IN  /\ op.subs[1].handlers = IF handler = NoHandler THEN <<>> ELSE <<handler>>
             /\ \A other \in SelectRequests :
                   other.class.name = request.class.name =>
                     LET alone == Mediator_send(World, op.mediator, other).subs[1]
                     IN  /\ alone.handlers = op.subs[1].handlers
                         /\ alone.calls = op.subs[1].calls]_vars
  /\ [][IsCall("publish") =>
         LET op == ops'[Len(ops')]
             notification == op.input[1]
         IN  /\ op.subs[1].handlers =
                  Registry_getNotificationHandlers(registries[mediators[op.mediator]],
                                                   notification.class.name)
             /\ \A other \in SelectNotifications :
                   other.class.name = notification.class.name =>
                     LET alone == Mediator_publish(World, op.mediator, other).subs[1]
                     IN  /\ alone.handlers = op.subs[1].handlers
                         /\ alone.calls = op.subs[1].calls]_vars
  /\ [](\A r \in 1..Len(registries), k \in RequestTypes, h \in SelectHandlers :
         Registry_getHandler(Registry_registerHandler(registries[r], k, h), k) = h)

\* an instance of a second class of a name, sent while the Registry holds the
\* first class of that name and a handler for the name, got that handler
C32_Witness ==
  \E o \in 1..Len(ops) :
    /\ ops[o].kind = "send"
    /\ ops[o].input[1].class = Class("A", "second")
    /\ ops[o].input[1].args = <<"d2">>
    /\ registries[mediators[ops[o].mediator]].requestClasses["A"] = Class("A", "first")
    /\ ops[o].subs[1].handlers = <<"hOk2">>
    /\ ops[o].state = "fulfilled"
    /\ ops[o].values[1] = ok(<<"hOk2", "A">>)

(***************************************************************************)
(* SpecInterleave: the Registry of a Mediator is filled, then send and     *)
(* publish are called on the Mediator while earlier calls are in flight,   *)
(* and the handler promises settle in any order.                           *)
(***************************************************************************)
InterleaveHandlers == {"hOk", "hReject"}
InterleaveNotificationHandlers == {"nResolve", "nReject"}

NextInterleave ==
  \/ \E r \in 1..Len(registries), k \in RequestTypes, h \in InterleaveHandlers :
       ops = <<>> /\ OnRegistry_registerHandler(r, k, h)
  \/ \E r \in 1..Len(registries), h \in InterleaveNotificationHandlers :
       ops = <<>> /\ OnRegistry_registerNotificationHandler(r, "N", h)
  \/ \E m \in 1..Len(mediators), k \in RequestTypes :
       Len(ops) < InterleaveCalls /\ OnMediator_send(m, Instance(k))
  \/ \E m \in 1..Len(mediators), k \in NotificationTypes :
       Len(ops) < InterleaveCalls /\ OnMediator_publish(m, Instance(k))
  \/ \E call \in PendingCalls : HandlerSettles(call[1], call[2], call[3])

SpecInterleave == InitPair /\ [][NextInterleave]_vars

\* the Result of a send of the request made alone against the registry
ResultAlone(registry, request) ==
  LET handler == registry.requestHandlers[request.name]
  IN  CASE handler = NoHandler  -> err(HANDLER_NOT_FOUND(request.name))
        [] handler = "hOk"      -> ok(<<"hOk", request.name>>)
        [] handler = "hReject"  -> err(HANDLER_ERROR(request.name))

\* C33: dispatches in flight together do not affect one another.  With the
\* Registry contents fixed while calls are in flight, every send, whatever
\* other sends and publishes are pending and in whatever order the handler
\* promises settle, has invoked the handler registered for its type-key and,
\* once settled, is fulfilled with the Result that a send made alone against
\* those Registry contents gives; every publish has invoked exactly the
\* handlers registered for its type-key, in order, and is fulfilled exactly
\* when all of them have settled.
C33_InterleavingIndependent ==
  \A o \in 1..Len(ops) :
    LET op == ops[o]
        registry == registries[mediators[op.mediator]]
        input == op.input[1]
    IN  /\ op.kind = "send" =>
             /\ Invoked(op.subs[1]) =
                  IF registry.requestHandlers[input.name] = NoHandler THEN <<>>
                  ELSE <<registry.requestHandlers[input.name]>>
             /\ op.state \in {"pending", "fulfilled"}
             /\ op.state = "pending" => /\ Len(op.subs[1].calls) = 1
                                        /\ op.subs[1].calls[1].state = "pending"
             /\ op.state = "fulfilled" => op.values[1] = ResultAlone(registry, input)
        /\ op.kind = "publish" =>
             /\ Invoked(op.subs[1]) = registry.notificationHandlers[input.name]
             /\ op.state \in {"pending", "fulfilled"}
             /\ op.state = "fulfilled" <=>
                  \A c \in 1..Len(op.subs[1].calls) :
                    op.subs[1].calls[c].state # "pending"

\* a send issued while an earlier send of another type-key was in flight has
\* had its handler settle first, the earlier send still pending
C33_Witness ==
  /\ Len(ops) >= 2
  /\ ops[1].kind = "send" /\ ops[1].state = "pending"
  /\ ops[2].kind = "send" /\ ops[2].state = "fulfilled"
  /\ ops[1].input[1].name # ops[2].input[1].name
  /\ Len(ops[2].subs[1].calls) = 1

(***************************************************************************)
(* SpecInFlightSend: handlers are registered, replaced and cleared on the  *)
(* Registry of a Mediator while sends on that Mediator are in flight.      *)
(***************************************************************************)
InFlightHandlers == {"hOk", "hOk2", "hReject"}

NextInFlightSend ==
  \/ \E r \in 1..Len(registries), k \in RequestTypes, h \in InFlightHandlers :
       OnRegistry_registerHandler(r, k, h)
  \/ \E r \in 1..Len(registries) : OnRegistry_reset(r)
  \/ \E m \in 1..Len(mediators), k \in RequestTypes :
       Len(ops) < InFlightCalls /\ OnMediator_send(m, Instance(k))
  \/ \E call \in PendingCalls : HandlerSettles(call[1], call[2], call[3])

SpecInFlightSend == InitPair /\ [][NextInFlightSend]_vars

\* the Result send gives for what the handler it invoked settles with
ResultOfInvoked(handler, request) ==
  CASE handler = "hOk"     -> ok(<<"hOk", request.name>>)
    [] handler = "hOk2"    -> ok(<<"hOk2", request.name>>)
    [] handler = "hReject" -> err(HANDLER_ERROR(request.name))

\* C34: the handler of a send is chosen once, when send is called.  A send
\* that is called invokes the handler the Registry holds for its type-key at
\* that moment (none: HANDLER_NOT_FOUND at once); a reset or a registration
\* leaves every send in flight as it is; the handler recorded for a send
\* never changes; and a send whose handler settles is fulfilled with the
\* Result of the handler it invoked, whatever the Registry holds by then.
C34_HandlerChosenAtCall ==
  /\ [][IsCall("send") =>
         LET op == ops'[Len(ops')]
             request == op.input[1]
             handler == registries[mediators[op.mediator]].requestHandlers[request.name]
         IN  IF handler = NoHandler
             THEN /\ op.subs[1].calls = <<>>
                  /\ op.state = "fulfilled"
                  /\ op.values[1] = err(HANDLER_NOT_FOUND(request.name))
             ELSE /\ op.subs[1].calls = <<Call(handler, "pending")>>
                  /\ op.state = "pending"]_vars
  /\ [][registries' # registries => ops' = ops]_vars
  /\ [][\A o \in 1..Len(ops) :
          /\ o <= Len(ops')
          /\ Invoked(ops'[o].subs[1]) = Invoked(ops[o].subs[1])
          /\ ops[o].state = "fulfilled" => ops'[o] = ops[o]
          /\ (ops[o].state = "pending" /\ ops'[o].state # "pending") =>
                /\ ops'[o].state = "fulfilled"
                /\ ops'[o].values[1] =
                     ResultOfInvoked(ops[o].subs[1].calls[1].handler, ops[o].input[1])]_vars

\* two sends of one type-key around a change of its handler: the first is
\* fulfilled with the Result of the handler it invoked, the later one with
\* the Result of the handler registered since, and the Registry, reset
\* afterwards, holds no handler for the key
C34_Witness ==
  /\ Len(ops) = 2
  /\ ops[1].input[1].name = "A" /\ ops[2].input[1].name = "A"
  /\ Invoked(ops[1].subs[1]) = <<"hOk">>
  /\ ops[1].state = "fulfilled"
  /\ ops[1].values[1] = ok(<<"hOk", "A">>)
  /\ Invoked(ops[2].subs[1]) = <<"hOk2">>
  /\ ops[2].state = "fulfilled"
  /\ ops[2].values[1] = ok(<<"hOk2", "A">>)
  /\ registries[mediators[ops[1].mediator]].requestHandlers["A"] = NoHandler

(***************************************************************************)
(* SpecInFlightPublish: notification handlers are registered and cleared   *)
(* on the Registry of a Mediator, by the application and by the handlers   *)
(* themselves while they are invoked, around publishes on that Mediator.   *)
(***************************************************************************)
InFlightNotificationHandlers == {"nResolve", "nThrow"} \cup ReentrantHandlerNames

NextInFlightPublish ==
  \/ \E r \in 1..Len(registries), h \in InFlightNotificationHandlers :
       OnRegistry_registerNotificationHandler(r, "N", h)
  \/ \E r \in 1..Len(registries) : OnRegistry_reset(r)
  \/ \E m \in 1..Len(mediators), k \in NotificationTypes :
       Len(ops) < InFlightCalls /\ OnMediator_publishWithEffects(m, Instance(k))
  \/ \E call \in PendingCalls : HandlerSettles(call[1], call[2], call[3])

SpecInFlightPublish == InitPair /\ [][NextInFlightPublish]_vars

\* C35 as claimed: a publish invokes exactly the handlers registered for the
\* type-key at the moment publish is called.  The handlers a publish has
\* invoked when the call returns are the handler list the Registry held for
\* the key when it was called, whatever the handlers did to the Registry on
\* the way, and nothing is added to or taken from them afterwards.
C35_PublishInvokesSnapshot ==
  /\ [][IsCall("publish") =>
         Invoked(ops'[Len(ops')].subs[1]) =
           registries[mediators[ops'[Len(ops')].mediator]]
             .notificationHandlers[ops'[Len(ops')].input[1].name]]_vars
  /\ [][\A o \in 1..Len(ops) :
          /\ o <= Len(ops')
          /\ Invoked(ops'[o].subs[1]) = Invoked(ops[o].subs[1])]_vars

(***************************************************************************)
(* SpecIsolation: the application calls MediatorFactory.create() and       *)
(* reset(), keeps every Mediator create() returned, registers handlers     *)
(* through mediator.registry of any of them and sends through any of them. *)
(***************************************************************************)
IsolationHandlers == {"hOk", "hOk2"}

NextIsolation ==
  \/ OnFactory_create
  \/ OnFactory_reset
  \/ \E m \in 1..Len(mediators), k \in RequestTypes, h \in IsolationHandlers :
       ops = <<>> /\ OnRegistry_registerHandler(mediators[m], k, h)
  \/ \E m \in 1..Len(mediators), k \in RequestTypes :
       ops = <<>> /\ OnMediator_send(m, Instance(k))
  \/ \E call \in PendingCalls : HandlerSettles(call[1], call[2], call[3])

SpecIsolation == InitModule /\ [][NextIsolation]_vars

\* the world w with the Registry r holding the given contents
WithContents(w, r, registry) == [w EXCEPT !.registries[r] = registry]

\* C36: singleton lifecycles are isolated.  No two Mediators returned by
\* create() are bound to the same Registry, and the Registry a Mediator is
\* bound to never changes; reset() empties the Registry of the singleton it
\* discards and leaves that Mediator bound to it; the singleton created
\* afterwards is bound to a Registry no earlier Mediator is bound to; and a
\* send through a Mediator, the singleton or an earlier one, gives what it
\* gives whatever the Registry of any other Mediator holds.
C36_LifecyclesIsolated ==
  /\ [](\A m1 \in 1..Len(mediators), m2 \in 1..Len(mediators) :
         m1 # m2 => mediators[m1] # mediators[m2])
  /\ [][\A m \in 1..Len(mediators) :
          m <= Len(mediators') /\ mediators'[m] = mediators[m]]_vars
  /\ [][(_instance # Null /\ _instance' = Null) =>
          /\ registries'[mediators[_instance]] = EmptyRegistry
          /\ \A r \in 1..Len(registries) :
                r # mediators[_instance] => registries'[r] = registries[r]]_vars
  /\ [][(_instance = Null /\ _instance' # Null) =>
          /\ _instance' \notin 1..Len(mediators)
          /\ mediators'[_instance'] = _registry'
          /\ \A m \in 1..Len(mediators) : mediators[m] # _registry'
          /\ registries'[_registry'] = EmptyRegistry]_vars
  /\ [][IsCall("send") =>
          LET op == ops'[Len(ops')]
          IN  \A r \in 1..Len(registries), h \in IsolationHandlers \cup {NoHandler} :
                r # mediators[op.mediator] =>
                  Mediator_send(
                    WithContents(World, r,
                      [EmptyRegistry EXCEPT !.requestHandlers[op.input[1].name] = h]),
                    op.mediator, op.input[1]) = op]_vars

\* a Mediator of an earlier lifecycle has been used beside the singleton of
\* the present one: its send ended in HANDLER_NOT_FOUND for a type-key the
\* singleton's Registry has a handler for, and its own Registry holds a
\* handler, registered through it, that the singleton's Registry lacks
C36_Witness ==
  /\ Len(mediators) = 2
  /\ _instance = 2
  /\ registries[mediators[2]].requestHandlers = [k \in RequestTypes |->
                                                 IF k = "A" THEN "hOk" ELSE NoHandler]
  /\ registries[mediators[1]].requestHandlers = [k \in RequestTypes |->
                                                 IF k = "B" THEN "hOk2" ELSE NoHandler]
  /\ Len(ops) = 1
  /\ ops[1].kind = "send"
  /\ ops[1].mediator = 1
  /\ ops[1].input[1].name = "A"
  /\ ops[1].state = "fulfilled"
  /\ FailsWith(ops[1].values[1], "HANDLER_NOT_FOUND")

(***************************************************************************)
(* attachMediator and mediatorMiddleware (middleware.ts).  A context is an *)
(* object of the framework; only its `mediator` property matters here: it  *)
(* is missing, null, or a reference to a Mediator object.                  *)
(***************************************************************************)
Missing == [kind |-> "undefined", ref |-> Null]
NullProperty == [kind |-> "null", ref |-> Null]
MediatorRef(m) == [kind |-> "mediator", ref |-> m]

Context(value) == [mediator |-> value]

\* JavaScript truthiness of the property: an object is truthy, null and
\* undefined are not
Truthy(value) == value.kind = "mediator"

\* an attachMediator that assigns the shared mediator whatever the context holds
middleware_attachMediatorOverwriting(w, ctx) ==
  [ctx EXCEPT !.mediator = MediatorRef(getMediator(w).middleware_mediator)]

\* attachMediator(ctx): the context it returns (ctx itself, possibly with its
\* mediator property assigned); the world after the call is getMediator(w)
middleware_attachMediator(w, ctx) ==
  LET mediator == MediatorRef(getMediator(w).middleware_mediator)
  IN  IF Truthy(ctx.mediator) /\ ctx.mediator # mediator
      THEN ctx
      ELSE IF ~Truthy(ctx.mediator)
      THEN [ctx EXCEPT !.mediator = mediator]
      ELSE ctx

\* the record of a call that was given a context and left it as `value`
ContextOp(kind, ctx, value) ==
  [kind |-> kind, mediator |-> Null, input |-> <<ctx>>, subs |-> <<>>,
   values |-> <<value>>, state |-> "returned"]

attachMediator(ctx) ==
  ApiDispatch(getMediator(World),
              ContextOp("attachMediator", ctx, middleware_attachMediator(World, ctx)))

\* the function mediatorMiddleware() returns, applied to ctx: it calls
\* attachMediator(ctx) and then the rest of the chain
mediatorMiddleware(ctx) ==
  ApiDispatch(getMediator(World),
              ContextOp("mediatorMiddleware", ctx, middleware_attachMediator(World, ctx)))

(***************************************************************************)
(* SpecAttach: the application creates and resets the singleton and hands  *)
(* contexts to attachMediator and to the middleware: new contexts, without *)
(* a mediator or carrying one of the Mediators that exist, and the context *)
(* the previous call returned.                                             *)
(***************************************************************************)
AttachContexts ==
  {Context(Missing), Context(NullProperty)}
    \cup {Context(MediatorRef(m)) : m \in 1..Len(mediators)}
    \cup {ops[o].values[1] : o \in {Len(ops)} \ {0}}

NextAttach ==
  \/ OnFactory_create
  \/ OnFactory_reset
  \/ \E ctx \in AttachContexts : Len(ops) < AttachCalls /\ attachMediator(ctx)
  \/ \E ctx \in AttachContexts : Len(ops) < AttachCalls /\ mediatorMiddleware(ctx)

SpecAttach == InitModule /\ [][NextAttach]_vars

\* C37: attachMediator, called directly or by the middleware, assigns the
\* shared mediator to a context whose mediator property has no value, and
\* leaves the property of a context that carries a mediator, the shared one
\* or another, as it is; so a context that went through it once is not
\* changed by going through it again.  The shared mediator is the one the
\* middleware module fetched from the factory on its first use.
C37_AttachKeepsMediator ==
  /\ [](\A o \in 1..Len(ops) :
         LET before == ops[o].input[1].mediator
             after == ops[o].values[1].mediator
         IN  /\ before.kind = "mediator" => after = before
             /\ before.kind # "mediator" => after = MediatorRef(middleware_mediator)
             /\ after.kind = "mediator"
             /\ after.ref \in 1..Len(mediators))
  /\ [](\A o \in 1..Len(ops) :
         middleware_attachMediator(World, ops[o].values[1]) = ops[o].values[1])
  /\ [][IsCall("attachMediator") \/ IsCall("mediatorMiddleware") =>
          /\ middleware_mediator' # Null
          /\ middleware_mediator # Null => middleware_mediator' = middleware_mediator
          /\ ops'[Len(ops')].values[1] =
               middleware_attachMediator(World, ops'[Len(ops')].input[1])]_vars

\* a context without a mediator got the shared one, and a context that
\* carried another Mediator, the singleton created after a reset, went
\* through the middleware and still carries that one
C37_Witness ==
  /\ Len(ops) = 2
  /\ ops[1].kind = "attachMediator"
  /\ ops[1].input[1].mediator = Missing
  /\ ops[1].values[1].mediator = MediatorRef(middleware_mediator)
  /\ ops[2].kind = "mediatorMiddleware"
  /\ ops[2].input[1].mediator.kind = "mediator"
  /\ ops[2].input[1].mediator.ref # middleware_mediator
  /\ ops[2].input[1].mediator.ref = _instance
  /\ ops[2].values[1] = ops[2].input[1]

(***************************************************************************)
(* The test helper ensureBuild.  `ops` holds the promises of this module:  *)
(* one record per ensureBuild call (where the async function stands: at    *)
(* the await of the file checks, at the await of buildPromise, or done)    *)
(* and one per runBuild call (the child process, the promise runBuild      *)
(* returned, and the promise .finally derived from it).  buildPromise is   *)
(* Null or the index of a runBuild record.                                 *)
(***************************************************************************)
\* the promise of an ensureBuild call that has reached its first await
EnsureBuildCall ==
  [kind |-> "ensureBuild", mediator |-> Null, input |-> <<>>, subs |-> <<>>,
   values |-> <<>>, state |-> "pending", pc |-> "checking", awaits |-> Null]

\* runBuild(): a child process is spawned (it runs, or spawning fails and an
\* 'error' event is due) and a pending promise is returned; `finally` is the
\* state of runBuild().finally(...)
runBuild(child) ==
  [kind |-> "runBuild", mediator |-> Null, input |-> <<>>, subs |-> <<>>,
   values |-> <<>>, state |-> "pending", child |-> child, finally |-> "pending"]

BuildCalls == {o \in 1..Len(ops) : ops[o].kind = "runBuild"}
EnsureBuildCalls == {o \in 1..Len(ops) : ops[o].kind = "ensureBuild"}

\* the `npm run build` child processes in flight
InFlight == {b \in BuildCalls : ops[b].child = "running"}

\* export async function ensureBuild(): up to the await of the file checks
ensureBuild ==
  /\ Cardinality(EnsureBuildCalls) < BuildCallers
  /\ ops' = Append(ops, EnsureBuildCall)
  /\ UNCHANGED <<registries, mediators, _instance, _registry,
                 helpers_mediator, middleware_mediator, buildPromise>>

\* an ensureBuild that starts a build of its own whatever buildPromise holds
ensureBuildCheckedUnshared(c, fresh, child) ==
  /\ ops[c].kind = "ensureBuild" /\ ops[c].pc = "checking"
  /\ IF fresh
     THEN /\ ops' = [ops EXCEPT ![c].pc = "done", ![c].state = "fulfilled"]
          /\ UNCHANGED buildPromise
     ELSE /\ ops' = Append([ops EXCEPT ![c].pc = "awaiting",
                                       ![c].awaits = Len(ops) + 1],
                           runBuild(child))
          /\ buildPromise' = Len(ops) + 1
  /\ UNCHANGED <<registries, mediators, _instance, _registry,
                 helpers_mediator, middleware_mediator>>

\* ensureBuild from the end of the file checks to its return or second await:
\* `fresh` is distExists && distMtime >= srcMtime, `child` is what spawn does
\* if runBuild is called
ensureBuildChecked(c, fresh, child) ==
  /\ ops[c].kind = "ensureBuild" /\ ops[c].pc = "checking"
  /\ IF fresh
     THEN /\ ops' = [ops EXCEPT ![c].pc = "done", ![c].state = "fulfilled"]
          /\ UNCHANGED buildPromise
     ELSE IF buildPromise = Null
     THEN /\ ops' = Append([ops EXCEPT ![c].pc = "awaiting",
                                       ![c].awaits = Len(ops) + 1],
                           runBuild(child))
          /\ buildPromise' = Len(ops) + 1
     ELSE /\ ops' = [ops EXCEPT ![c].pc = "awaiting", ![c].awaits = buildPromise]
          /\ UNCHANGED buildPromise
  /\ UNCHANGED <<registries, mediators, _instance, _registry,
                 helpers_mediator, middleware_mediator>>

\* child.on('exit', code => ...) and child.on('error', reject): the event of
\* the child of build b arrives and settles the promise runBuild returned
OnChildEvent(b, code) ==
  /\ ops[b].kind = "runBuild" /\ ops[b].state = "pending"
  /\ ops' = [ops EXCEPT
       ![b].child = IF @ = "running" THEN "exited" ELSE "none",
       ![b].state = IF ops[b].child = "running" /\ code = 0
                    THEN "fulfilled" ELSE "rejected"]
  /\ UNCHANGED <<registries, mediators, _instance, _registry,
                 helpers_mediator, middleware_mediator, buildPromise>>

\* .finally(() => { buildPromise = null }): the callback runs once the
\* promise of runBuild has settled, and the derived promise settles like it
OnFinally(b) ==
  /\ ops[b].kind = "runBuild"
  /\ ops[b].state # "pending" /\ ops[b].finally = "pending"
  /\ buildPromise' = Null
  /\ ops' = [ops EXCEPT ![b].finally = ops[b].state]
  /\ UNCHANGED <<registries, mediators, _instance, _registry,
                 helpers_mediator, middleware_mediator>>

\* `await buildPromise` of call c goes on: the promise it awaits has settled
ensureBuildResumed(c) ==
  /\ ops[c].kind = "ensureBuild" /\ ops[c].pc = "awaiting"
  /\ ops[ops[c].awaits].finally # "pending"
  /\ ops' = [ops EXCEPT ![c].pc = "done", ![c].state = ops[ops[c].awaits].finally]
  /\ UNCHANGED <<registries, mediators, _instance, _registry,
                 helpers_mediator, middleware_mediator, buildPromise>>

(***************************************************************************)
(* SpecBuild: tests call ensureBuild while earlier calls are in flight;    *)
(* the file checks find dist fresh or stale, the build exits with code 0   *)
(* or 1 or cannot be spawned.                                              *)
(***************************************************************************)
NextBuild ==
  \/ ensureBuild
  \/ \E c \in 1..Len(ops), fresh \in BOOLEAN, child \in {"running", "error"} :
       ensureBuildChecked(c, fresh, child)
  \/ \E b \in 1..Len(ops), code \in {0, 1} : OnChildEvent(b, code)
  \/ \E b \in 1..Len(ops) : OnFinally(b)
  \/ \E c \in 1..Len(ops) : ensureBuildResumed(c)

SpecBuild == InitModule /\ [][NextBuild]_vars

\* C38: at most one `npm run build` child is in flight at any time.  While a
\* build has not been cleared it is the one buildPromise refers to, every
\* ensureBuild call that found dist stale awaits it, and no other build is
\* started; each of these calls settles as that build did (fulfilled for exit
\* code 0, rejected otherwise); and buildPromise is set back to null once the
\* build has settled, with either outcome, and not before.
C38_SingleBuild ==
  /\ [](Cardinality(InFlight) <= 1)
  /\ [](\A b \in BuildCalls : ops[b].finally = "pending" <=> buildPromise = b)
  /\ [](\A c \in EnsureBuildCalls :
         /\ ops[c].pc = "awaiting" =>
              /\ ops[c].awaits \in BuildCalls
              /\ ops[c].state = "pending"
         /\ (ops[c].pc = "done" /\ ops[c].awaits # Null) =>
              /\ ops[ops[c].awaits].finally = ops[ops[c].awaits].state
              /\ ops[c].state = ops[ops[c].awaits].state)
  /\ [][\A c \in EnsureBuildCalls :
          (ops[c].pc = "checking" /\ ops'[c].pc = "awaiting") =>
            /\ ops'[c].awaits = buildPromise'
            /\ buildPromise # Null => /\ buildPromise' = buildPromise
                                      /\ Len(ops') = Len(ops)
            /\ buildPromise = Null => /\ InFlight = {}
                                      /\ Len(ops') = Len(ops) + 1]_vars
  /\ [][buildPromise' # buildPromise =>
          \/ /\ buildPromise = Null
             /\ buildPromise' = Len(ops')
             /\ Len(ops') = Len(ops) + 1
          \/ /\ buildPromise # Null
             /\ buildPromise' = Null
             /\ ops[buildPromise].state # "pending"]_vars

\* two calls shared one build and were rejected with it when it failed;
\* buildPromise was cleared, and a later call has started a second build,
\* the only child in flight
C38_Witness ==
  /\ Len(ops) = 5
  /\ \E c1 \in EnsureBuildCalls, c2 \in EnsureBuildCalls, b \in BuildCalls :
       /\ c1 # c2
       /\ ops[c1].awaits = b /\ ops[c2].awaits = b
       /\ ops[b].child = "exited"
       /\ ops[b].state = "rejected"
       /\ ops[c1].state = "rejected" /\ ops[c2].state = "rejected"
  /\ \E c3 \in EnsureBuildCalls :
       /\ ops[c3].pc = "awaiting"
       /\ ops[c3].awaits = buildPromise
       /\ InFlight = {buildPromise}

====
